---- MODULE Spec2Model ----
(***************************************************************************)
(* A model of the replication core of the cyberfly mobile node:            *)
(*   rust/src/crypto.rs   signature and database-name checks               *)
(*   rust/src/sync.rs     SignedOperation, SyncStore (LWW map, applied     *)
(*                        set), SyncManager (request/response protocol)    *)
(*   rust/src/node.rs     the command dispatcher (StoreData, RequestSync)  *)
(*                        and the sync-topic listener                      *)
(*                                                                         *)
(* Strings that the code takes apart (database names, public keys, the     *)
(* continuation token) are sequences of tokens; a key token stands for the *)
(* 64 hex characters of one Ed25519 public key.  Opaque strings (keys,     *)
(* values, store types, node ids) are TLA+ strings.  An op_id is a natural *)
(* number: the code only compares op_ids (String's total order) and tests  *)
(* them for equality.                                                      *)
(***************************************************************************)
EXTENDS Integers, Sequences, FiniteSets, TLC

VARIABLES
    \* ---- two SyncStores fed with the same operations (LWW harness) ----
    stores,      \* store id -> LWW map (SyncStore.operations)
    opSet,       \* the operations that are delivered to the stores
    delivered,   \* store id -> operations delivered to it so far
    last         \* the last direct call on store 1: function, argument, map before, result

    ,
    \* ---- one node: SyncStore, Storage, dispatcher, sync-topic listener ----
    ops,         \* SyncStore.operations: CRDT key -> [ts, op]
    applied,     \* SyncStore.applied_ops: set of op_ids
    storage,     \* Storage: <<db_name, key>> -> value
    puts,        \* op_id -> number of successful storage puts made for that operation
    syncSender,  \* whether sync_sender holds a GossipSender (the subscribe succeeded)
    dpc,         \* command dispatcher: "idle", or the step of the StoreData handler it is at
    cur,         \* the operation built by the StoreData handler in progress
    cmdLog,      \* the effects of the StoreData command handled last, in order
    usedIds,     \* op_ids drawn so far by SignedOperation::new
    lpc,         \* sync listener: "idle", "apply_op", "merge", "apply_all", "apply_loop"
    lmsg,        \* the message the listener is handling
    wire,        \* the message this node broadcast last on the sync topic
    pending,     \* apply_all_to_storage: the operations its loop has still to visit
    redelivery   \* the SyncResponse in hand carries only operations retained and applied before

    ,
    \* ---- one responder answering the node's sync requests ----
    srvOps,      \* the responder's SyncStore.operations (it does not change)
    req,         \* the SyncRequest the responder handled last
    resp,        \* the SyncResponse in flight from the responder to the node
    rounds       \* number of SyncResponses the responder has sent, capped at MaxRounds

    ,
    \* ---- the peer registry (discovery.rs) and the clock ----
    peers,               \* PeerRegistry.peers: node_id -> DiscoveredPeer
    announcement_cache,  \* PeerRegistry.announcement_cache: announcement id -> timestamp (ms)
    rclock,              \* the time in seconds: Instant::now(), and Utc::now() in whole seconds
    regCall,             \* the registry call made last: function, arguments, result; seq flips at each call
    accepted             \* the <<id, timestamp>> of the announcements that updated the registry so far

    ,
    \* ---- the node's shared state, its listeners and its isolation monitor (node.rs) ----
    connected_peers,              \* SharedNodeState.connected_peers
    discovered_peers,             \* SharedNodeState.discovered_peers
    gossip_messages_received,     \* SharedNodeState.gossip_messages_received, capped at MaxMessages
    connected_map,                \* run_node's connected_peers DashMap: the neighbors that are up
    lst,                          \* listener -> its position in handling an event, and the count it read
    consecutive_isolation_count,  \* the monitor's counter
    isolatedRun,                  \* isolated checks in a row since the last other check or reconnection round
    monCheck                      \* the monitor's last check: what it saw and did; seq flips at each check

    ,
    \* ---- NetworkResilience (network_resilience.rs) ----
    connection_attempts,  \* the AtomicU32, as the integer in -2^31..2^31-1 congruent to it modulo 2^32
    callers,              \* task -> where it is in allow_connection_attempt or in the reconnect loop
    granted,              \* calls of allow_connection_attempt that returned true since the last reset
    peer_backoff,         \* peer -> <<failure_count, next_allowed_time>>
    attempt               \* the connect result handled last: peer, entry before, time, outcome; seq flips

    ,
    \* ---- the command channel of the dispatcher (node.rs) ----
    command_rx            \* the commands sent by the host and not yet received by the dispatcher

    ,
    \* ---- the process-wide singletons of the host API (api.rs) ----
    holder,               \* NODE: None, or Some(n) for the node the holder's Arc points to
    nodes,                \* started node -> its dispatcher, listener tasks, periodic tasks, Arc clones in API calls
    log_buffer,           \* LOG_BUFFER: the VecDeque of log entries, oldest first
    logged,               \* number of add_log_entry calls made so far
    logsCall              \* the log call made last: function, argument, result; seq flips at each call

    ,
    \* ---- what the listeners of one node received, and a restart of the node ----
    lrecv,                \* the message the sync listener received last; seq flips at each message
    unverifiedMsg,        \* the gossip message handled last whose signature no code checked; seq flips
    prior,                \* the operations applied to storage before the restart
    restarted,            \* whether the node was restarted

    \* ---- LatencyResponse, the bootstrap connects of start, the reconnect loop's visits ----
    latCall,              \* the latency computation made last: inputs and the two results
    latency_requests_sent,       \* SharedNodeState.latency_requests_sent
    latency_responses_received,  \* SharedNodeState.latency_responses_received
    pending_latency,      \* request_id -> sent_at of the requests that wait for a response
    visit,                \* the reconnect loop's last visit of a peer: what it decided; seq flips
    boot,                 \* CyberflyNode::start, the retry loop for one bootstrap peer
    event_queue,          \* number of NodeEvents in the event channel
    inbox,                \* gossip events delivered on the sync topic, not yet taken by the listener

    \* ---- what a caller of store_data / get_data has seen (history) ----
    callerView            \* stores enqueued, the store handled last and whether its write still
                          \* stands, the answer to the last get_data

lwwVars == <<stores, opSet, delivered, last>>

nodeVars == <<ops, applied, storage, puts, syncSender, dpc, cur, cmdLog, usedIds, lpc, lmsg, wire, pending, redelivery>>

syncVars == <<srvOps, req, resp, rounds>>

regVars == <<peers, announcement_cache, rclock, regCall, accepted>>

peerVars == <<connected_peers, discovered_peers, gossip_messages_received, connected_map, lst,
              consecutive_isolation_count, isolatedRun, monCheck>>

resVars == <<connection_attempts, callers, granted, peer_backoff, attempt>>

stopVars == <<command_rx>>

holderVars == <<holder, nodes>>

logVars == <<log_buffer, logged, logsCall>>

obsVars == <<lrecv, unverifiedMsg>>

restartVars == <<prior, restarted>>

callerVars == <<callerView>>

pingVars == <<latency_requests_sent, latency_responses_received, pending_latency>>

latVars == <<latCall, pingVars>>

loopVars == <<visit>>

bootVars == <<boot>>

evVars == <<event_queue, inbox>>

hostVars == <<holderVars, logVars, obsVars, restartVars, callerVars, latVars, loopVars, bootVars, evVars>>

coreVars == <<lwwVars, nodeVars, syncVars, regVars, peerVars, resVars, stopVars>>

\* What the functions of one part of the host API and of start leave alone.
outsideHolder == <<coreVars, logVars, obsVars, restartVars, callerVars, latVars, loopVars, bootVars, evVars>>

outsideLog == <<coreVars, holderVars, obsVars, restartVars, callerVars, latVars, loopVars, bootVars, evVars>>

outsideLat == <<coreVars, holderVars, logVars, obsVars, restartVars, callerVars, loopVars, bootVars, evVars>>

outsideBoot == <<coreVars, holderVars, logVars, obsVars, restartVars, callerVars, latVars, loopVars, evVars>>

netVars == <<regVars, peerVars, resVars, stopVars, hostVars>>

\* What the registry's own functions leave alone.
outsideReg == <<lwwVars, nodeVars, syncVars, peerVars, resVars, stopVars, hostVars>>

vars == <<stores, opSet, delivered, last,
          ops, applied, storage, puts, syncSender, dpc, cur, cmdLog, usedIds, lpc, lmsg, wire, pending, redelivery,
          srvOps, req, resp, rounds, netVars>>

(***************************************************************************)
(* crypto.rs                                                               *)
(***************************************************************************)
ED25519_PUBLIC_KEY_LENGTH == 32

ED25519_SIGNATURE_LENGTH == 64

\* Key tokens: each is the hex encoding (64 characters) of a valid public key.
KeyTokens == {"A", "B"}

\* Single hexadecimal characters that may appear outside a key token.
HexChars == {"a", "7"}

TokLen(t) == IF t \in KeyTokens THEN 2 * ED25519_PUBLIC_KEY_LENGTH ELSE 1

RECURSIVE StrLen(_)
StrLen(s) == IF s = <<>> THEN 0 ELSE TokLen(Head(s)) + StrLen(Tail(s))

\* str.ends_with(suffix)
EndsWith(s, suffix) ==
    /\ Len(suffix) <= Len(s)
    /\ SubSeq(s, Len(s) - Len(suffix) + 1, Len(s)) = suffix

\* secure_hex_decode: the number of decoded bytes, or -1 for Err.
secure_hex_decode(hex) ==
    IF hex = <<>> THEN 0
    ELSE IF StrLen(hex) % 2 # 0 THEN -1
    ELSE IF \E i \in 1..Len(hex) : hex[i] \notin KeyTokens \cup HexChars THEN -1
    ELSE StrLen(hex) \div 2

\* A signature value: the number of bytes its hex text decodes to, and (for a
\* signature made by a key holder) the signing key and the signed message.
Signature(by, form, body) == [bytes |-> ED25519_SIGNATURE_LENGTH, by |-> by, form |-> form, body |-> body]

\* The empty signature string.
EmptySignature == [bytes |-> 0, by |-> <<>>, form |-> "none", body |-> <<>>]

\* 64 well-formed bytes that verify under no key for no message.
ForgedSignature == [bytes |-> ED25519_SIGNATURE_LENGTH, by |-> <<>>, form |-> "none", body |-> <<>>]

\* verify_signature_bytes: "err" for a structural error, else "true" / "false".
verify_signature_bytes(pkBytes, msg, sig) ==
    IF pkBytes # ED25519_PUBLIC_KEY_LENGTH THEN "err"
    ELSE IF sig.bytes # ED25519_SIGNATURE_LENGTH THEN "err"
    ELSE IF sig.form = msg.form /\ sig.by = msg.key /\ sig.body = msg.body THEN "true"
    ELSE "false"

\* verify_signature(public_key_hex, message, signature_hex).  The message is
\* passed with the key it is checked under, so that msg.key is public_key_hex.
verify_signature(public_key_hex, msg, sig) ==
    IF secure_hex_decode(public_key_hex) < 0 THEN "err"
    ELSE IF sig.bytes < 0 THEN "err"
    ELSE verify_signature_bytes(secure_hex_decode(public_key_hex),
                                [form |-> msg.form, key |-> public_key_hex, body |-> msg.body], sig)

\* generate_db_name: "{name}-{public_key_hex}"
generate_db_name(name, public_key_hex) == name \o <<"-">> \o public_key_hex

\* extract_name_from_db: the text before the last '-', or "none".
extract_name_from_db(db_name) ==
    LET dashes == {i \in 1..Len(db_name) : db_name[i] = "-"}
    IN IF dashes = {} THEN [some |-> FALSE, name |-> <<>>]
       ELSE LET pos == CHOOSE i \in dashes : \A j \in dashes : j <= i
            IN [some |-> TRUE, name |-> SubSeq(db_name, 1, pos - 1)]

\* verify_db_name_secure: TRUE for Ok(()).
verify_db_name_secure(db_name, public_key_hex) ==
    IF db_name = <<>> \/ public_key_hex = <<>> THEN FALSE
    ELSE IF StrLen(public_key_hex) # ED25519_PUBLIC_KEY_LENGTH * 2 THEN FALSE
    ELSE IF secure_hex_decode(public_key_hex) < 0 THEN FALSE
    ELSE IF ~EndsWith(db_name, <<"-">> \o public_key_hex) THEN FALSE
    ELSE LET name_part == extract_name_from_db(db_name)
         IN IF ~name_part.some THEN FALSE
            ELSE IF name_part.name = <<>> \/ (\E i \in 1..Len(name_part.name) : name_part.name[i] = "\n")
                 THEN FALSE
                 ELSE TRUE

(***************************************************************************)
(* sync.rs: SignedOperation                                                *)
(***************************************************************************)
MAX_OPS_PER_RESPONSE == 128

\* field: <<>> is None, <<f>> is Some(f).
SignedOperation(op_id, timestamp, db_name, key, value, store_type, field, public_key, signature) ==
    [op_id |-> op_id, timestamp |-> timestamp, db_name |-> db_name, key |-> key,
     value |-> value, store_type |-> store_type, field |-> field,
     public_key |-> public_key, signature |-> signature]

\* "{op_id}:{timestamp}:{db_name}:{key}:{value}"
FullMessage(op) == [form |-> "full", body |-> <<op.op_id, op.timestamp, op.db_name, op.key, op.value>>]

\* "{db_name}:{key}:{value}"
ShortMessage(op) == [form |-> "short", body |-> <<op.db_name, op.key, op.value>>]

\* verify without the signature check: every operation passes.
verify_Unchecked(op) == "true"

\* SignedOperation::verify: "true", "false" or "err".  The database-name and
\* timestamp checks only log, whatever they find.
verify(op) ==
    IF verify_signature(op.public_key, FullMessage(op), op.signature) = "true" THEN "true"
    ELSE verify_signature(op.public_key, ShortMessage(op), op.signature)

\* SignedOperation::crdt_key
crdt_key(op) ==
    IF op.field # <<>> THEN <<op.db_name, op.key, op.field[1]>>
    ELSE <<op.db_name, op.key>>

(***************************************************************************)
(* sync.rs: SyncStore, the LWW map                                         *)
(***************************************************************************)
\* HashMap::insert
MapInsert(m, k, v) == [x \in (DOMAIN m) \cup {k} |-> IF x = k THEN v ELSE m[x]]

EmptyMap == <<>>

\* RejectedByExisting without the op_id tiebreak: an equal timestamp replaces.
RejectedByExisting_NoTiebreak(m, op) ==
    LET k == crdt_key(op)
    IN k \in DOMAIN m /\ op.timestamp < m[k].ts

\* RejectedByExisting with a strict op_id comparison: the operation already
\* stored replaces itself.
RejectedByExisting_StrictId(m, op) ==
    LET k == crdt_key(op)
    IN /\ k \in DOMAIN m
       /\ \/ op.timestamp < m[k].ts
          \/ op.timestamp = m[k].ts /\ op.op_id < m[k].op.op_id

\* The two early returns of add_operation / add_operation_unverified: TRUE when
\* the existing entry makes the call return Ok(false).
RejectedByExisting(m, op) ==
    LET k == crdt_key(op)
    IN /\ k \in DOMAIN m
       /\ \/ op.timestamp < m[k].ts
          \/ op.timestamp = m[k].ts /\ op.op_id <= m[k].op.op_id

\* add_operation_unverified: the value returned and the map afterwards.
add_operation_unverified_ret(m, op) == ~RejectedByExisting(m, op)

add_operation_unverified_map(m, op) ==
    IF RejectedByExisting(m, op) THEN m
    ELSE MapInsert(m, crdt_key(op), [ts |-> op.timestamp, op |-> op])

\* add_operation: verify().unwrap_or(false) first, then the same merge.
add_operation_ret(m, op) ==
    IF verify(op) # "true" THEN FALSE
    ELSE ~RejectedByExisting(m, op)

add_operation_map(m, op) ==
    IF verify(op) # "true" THEN m
    ELSE IF RejectedByExisting(m, op) THEN m
    ELSE MapInsert(m, crdt_key(op), [ts |-> op.timestamp, op |-> op])

\* merge_operations: fold add_operation over the vector.
RECURSIVE merge_operations_map(_, _)
merge_operations_map(m, operations) ==
    IF operations = <<>> THEN m
    ELSE merge_operations_map(add_operation_map(m, Head(operations)), Tail(operations))

RECURSIVE merge_operations_count(_, _)
merge_operations_count(m, operations) ==
    IF operations = <<>> THEN 0
    ELSE (IF add_operation_ret(m, Head(operations)) THEN 1 ELSE 0)
         + merge_operations_count(add_operation_map(m, Head(operations)), Tail(operations))

(***************************************************************************)
(* sync.rs: SyncStore, apply to storage                                    *)
(***************************************************************************)
\* Cap of the per-operation put counter.
MaxPutCount == 2

Min(a, b) == IF a <= b THEN a ELSE b

\* str::to_lowercase on a store type.
ToLower(store_type) ==
    CASE store_type = "String" -> "string"
      [] store_type = "Hash" -> "hash"
      [] store_type = "JSON" -> "json"
      [] OTHER -> store_type

PutCount(p, op_id) == IF op_id \in DOMAIN p THEN p[op_id] ELSE 0

\* One more successful put made for op_id.
CountPut(p, op_id) == MapInsert(p, op_id, Min(PutCount(p, op_id) + 1, MaxPutCount))

\* The storage key apply_to_storage writes: op.key, or "{key}:{field}" for a
\* Hash operation.  <<>> when the operation cannot be applied (Hash, no field).
StorageKey(op) ==
    IF ToLower(op.store_type) = "hash"
    THEN IF op.field = <<>> THEN <<>> ELSE <<op.db_name, <<op.key, ":", op.field[1]>>>>
    ELSE <<op.db_name, <<op.key>>>>

\* apply_to_storage on the state st = [storage, applied, puts]: skip an applied
\* op_id; put; mark applied.  An Err (no field, failing put) changes nothing.
\* failing: the op_ids whose Storage::put returns an IoError.
apply_to_storage(st, op, failing) ==
    IF op.op_id \in st.applied THEN st
    ELSE IF StorageKey(op) = <<>> THEN st
    ELSE IF op.op_id \in failing THEN st
    ELSE [storage |-> MapInsert(st.storage, StorageKey(op), op.value),
          applied |-> st.applied \cup {op.op_id},
          puts |-> CountPut(st.puts, op.op_id)]

\* apply_to_storage returns Err: a Hash operation without a field, or a
\* Storage::put that fails.
apply_to_storage_err(st, op, failing) ==
    /\ op.op_id \notin st.applied
    /\ (StorageKey(op) = <<>> \/ op.op_id \in failing)

\* apply_all_to_storage leaving the loop at the first Err.
RECURSIVE apply_all_to_storage_Abort(_, _, _)
apply_all_to_storage_Abort(st, operations, failing) ==
    IF operations = <<>> THEN [st |-> st, applied |-> 0]
    ELSE IF apply_to_storage_err(st, Head(operations), failing) THEN [st |-> st, applied |-> 0]
    ELSE LET rest == apply_all_to_storage_Abort(apply_to_storage(st, Head(operations), failing),
                                                Tail(operations), failing)
         IN [st |-> rest.st,
             applied |-> rest.applied + (IF Head(operations).op_id \notin st.applied THEN 1 ELSE 0)]

\* apply_all_to_storage over the snapshot `operations` of the map: for each
\* operation that is not applied, apply_to_storage; an Err is logged, an Ok
\* is counted.  The state afterwards and the count returned.
RECURSIVE apply_all_to_storage(_, _, _)
apply_all_to_storage(st, operations, failing) ==
    IF operations = <<>> THEN [st |-> st, applied |-> 0]
    ELSE LET rest == apply_all_to_storage(apply_to_storage(st, Head(operations), failing),
                                          Tail(operations), failing)
         IN [st |-> rest.st,
             applied |-> rest.applied
                         + (IF /\ Head(operations).op_id \notin st.applied
                               /\ ~apply_to_storage_err(st, Head(operations), failing)
                            THEN 1 ELSE 0)]

\* The permutations of a finite set, as sequences.
RECURSIVE Perms(_)
Perms(S) ==
    IF S = {} THEN {<<>>}
    ELSE UNION {{<<x>> \o p : p \in Perms(S \ {x})} : x \in S}

(***************************************************************************)
(* sync.rs: SyncManager                                                    *)
(***************************************************************************)
NoMessage == [type |-> "none"]

SyncRequest(requester, since_timestamp) ==
    [type |-> "SyncRequest", requester |-> requester, since_timestamp |-> since_timestamp]

SyncResponse(requester, operations, has_more, continuation_token) ==
    [type |-> "SyncResponse", requester |-> requester, operations |-> operations,
     has_more |-> has_more, continuation_token |-> continuation_token]

Operation(operation) == [type |-> "Operation", operation |-> operation]

DigitChars == <<"0", "1", "2", "3", "4", "5", "6", "7", "8", "9">>

\* format!("{}", n) for an i64: the decimal digits, '-' first when negative.
RECURSIVE FormatNat(_)
FormatNat(n) == IF n < 10 THEN <<DigitChars[n + 1]>> ELSE FormatNat(n \div 10) \o <<DigitChars[(n % 10) + 1]>>

FormatI64(n) == IF n < 0 THEN <<"-">> \o FormatNat(-n) ELSE FormatNat(n)

DigitValue(c) == CHOOSE d \in 0..9 : DigitChars[d + 1] = c

IsDigit(c) == \E d \in 0..9 : DigitChars[d + 1] = c

RECURSIVE ParseNat(_)
ParseNat(s) == IF s = <<>> THEN 0 ELSE 10 * ParseNat(SubSeq(s, 1, Len(s) - 1)) + DigitValue(s[Len(s)])

\* str::parse::<i64>: an optional sign and at least one digit; <<>> for Err.
ParseI64(s) ==
    LET body == IF s # <<>> /\ s[1] \in {"-", "+"} THEN Tail(s) ELSE s
    IN IF body = <<>> \/ (\E i \in 1..Len(body) : ~IsDigit(body[i])) THEN <<>>
       ELSE IF s[1] = "-" THEN <<-ParseNat(body)>> ELSE <<ParseNat(body)>>

TokenPrefix == <<"t", "s", ":">>

\* token.strip_prefix("ts:"): <<rest>>, or <<>> when the prefix is missing.
StripPrefix(token) ==
    IF Len(token) >= Len(TokenPrefix) /\ SubSeq(token, 1, Len(TokenPrefix)) = TokenPrefix
    THEN <<SubSeq(token, Len(TokenPrefix) + 1, Len(token))>>
    ELSE <<>>

\* The order of operations.sort_by: timestamp, then op_id.
SortsBefore(a, b) ==
    \/ a.timestamp < b.timestamp
    \/ a.timestamp = b.timestamp /\ a.op_id < b.op_id

\* The operations of S, each paired with the number of operations of S that
\* sort before it.
Ranks(S) == {<<o, Cardinality({p \in S : SortsBefore(p, o)})>> : o \in S}

\* The results sort_by can give on the operations S: the sort is stable, so
\* operations equal in (timestamp, op_id) stay in HashMap iteration order.
SortedSeqs(S) ==
    IF \A a \in S, b \in S : a = b \/ SortsBefore(a, b) \/ SortsBefore(b, a)
    THEN {[i \in 1..Cardinality(R) |-> (CHOOSE r \in R : r[2] = i - 1)[1]] : R \in {Ranks(S)}}
    ELSE {p \in Perms(S) : \A i \in 1..Len(p), j \in 1..Len(p) : i < j => ~SortsBefore(p[j], p[i])}

\* get_operations_since keeping only the operations after the timestamp.
Candidates_StrictlyAfter(m, since_timestamp) ==
    IF since_timestamp = <<>> THEN {m[k].op : k \in DOMAIN m}
    ELSE {m[k].op : k \in {x \in DOMAIN m : m[x].ts > since_timestamp[1]}}

\* get_all_operations / get_operations_since
Candidates(m, since_timestamp) ==
    IF since_timestamp = <<>> THEN {m[k].op : k \in DOMAIN m}
    ELSE {m[k].op : k \in {x \in DOMAIN m : m[x].ts >= since_timestamp[1]}}

\* get_all_operations as apply_all_to_storage sees it: HashMap::values(), the
\* operations of the map in an arbitrary order.  When no two operations share
\* an op_id or a storage key, visiting them in any order gives the same
\* result, and one order stands for all.
IterationOrders(m) ==
    IF \A a \in Candidates(m, <<>>), b \in Candidates(m, <<>>) :
            a = b \/ (a.op_id # b.op_id /\ StorageKey(a) # StorageKey(b))
    THEN SortedSeqs(Candidates(m, <<>>))
    ELSE Perms(Candidates(m, <<>>))

\* The chunk taken from the sorted operations.
TakeChunk(sorted) == SubSeq(sorted, 1, Min(Len(sorted), MAX_OPS_PER_RESPONSE))

\* has_more = total > chunk.len()
HasMore(total, chunk) == total > Len(chunk)

\* The continuation token: Some("ts:{timestamp of chunk.last()}") when has_more.
ContinuationToken(has_more, chunk) ==
    IF has_more
    THEN <<TokenPrefix \o FormatI64(IF chunk = <<>> THEN 0 ELSE chunk[Len(chunk)].timestamp)>>
    ELSE <<>>

\* handle_sync_message, SyncRequest arm: the response for one sort result.
HandleSyncRequest(sorted, requester) ==
    LET chunk == TakeChunk(sorted)
        has_more == HasMore(Len(sorted), chunk)
    IN SyncResponse(requester, chunk, has_more, ContinuationToken(has_more, chunk))

\* handle_sync_message, SyncResponse arm, after merge and apply: the follow-up
\* request, or NoMessage.
FollowUp(local_node_id, has_more, continuation_token) ==
    IF has_more /\ continuation_token # <<>>
       /\ StripPrefix(continuation_token[1]) # <<>>
       /\ ParseI64(StripPrefix(continuation_token[1])[1]) # <<>>
    THEN SyncRequest(local_node_id, ParseI64(StripPrefix(continuation_token[1])[1]))
    ELSE NoMessage

(***************************************************************************)
(* The operations fed to the stores                                        *)
(***************************************************************************)
\* Largest number of operations delivered to the two stores.
MaxOps == 2

OpIds == {1, 2}

Timestamps == {1, 2}

Values == {"v", "w"}

AppDb == generate_db_name(<<"app">>, <<"A">>)

\* An operation signed (full format) by the owner of its database.
SignedFull(op_id, ts, db, key, value, store_type, field, pk) ==
    LET unsigned == SignedOperation(op_id, ts, db, key, value, store_type, field, pk, EmptySignature)
    IN [unsigned EXCEPT !.signature = Signature(pk, "full", FullMessage(unsigned).body)]

\* An operation carrying a client's short-format signature.
SignedShort(op_id, ts, db, key, value, store_type, field, pk) ==
    LET unsigned == SignedOperation(op_id, ts, db, key, value, store_type, field, pk, EmptySignature)
    IN [unsigned EXCEPT !.signature = Signature(pk, "short", ShortMessage(unsigned).body)]

\* The same operation with a signature that does not verify.
Tampered(op) == [op EXCEPT !.signature = ForgedSignature]

Fields == {<<>>, <<"f">>}

\* Operations on the registers (AppDb, "k") and (AppDb, "k", "f").
GoodOps == {SignedFull(i, t, AppDb, "k", v, "String", f, <<"A">>) :
                i \in OpIds, t \in Timestamps, v \in Values, f \in Fields}

OpUniverse == GoodOps \cup {Tampered(op) : op \in GoodOps}

StoreIds == {1, 2}

NoCall == [fn |-> "none", op |-> <<>>, before |-> EmptyMap, ret |-> FALSE]

NoOp == SignedOperation(0, 0, <<>>, "", "", "", <<>>, <<>>, EmptySignature)

\* A node right after run_node has built its SyncManager on an empty store.
InitNodeIdle ==
    /\ ops = EmptyMap
    /\ applied = {}
    /\ storage = EmptyMap
    /\ puts = EmptyMap
    /\ syncSender = TRUE
    /\ dpc = "idle"
    /\ cur = NoOp
    /\ cmdLog = <<>>
    /\ usedIds = {}
    /\ lpc = "idle"
    /\ lmsg = NoMessage
    /\ wire = NoMessage
    /\ pending = <<>>
    /\ redelivery = FALSE

\* No responder.
InitSyncIdle ==
    /\ srvOps = EmptyMap
    /\ req = NoMessage
    /\ resp = NoMessage
    /\ rounds = 0

InitLWWIdle ==
    /\ stores = [s \in StoreIds |-> EmptyMap]
    /\ opSet = {}
    /\ delivered = [s \in StoreIds |-> {}]
    /\ last = NoCall

\* An empty registry at time 0.
NoRegCall == [fn |-> "none", node_id |-> "", id |-> "", timestamp |-> 0, updated |-> FALSE,
              ret |-> 0, seq |-> 0]

InitRegIdle ==
    /\ peers = EmptyMap
    /\ announcement_cache = EmptyMap
    /\ rclock = 0
    /\ regCall = NoRegCall
    /\ accepted = {}

Listeners == {"data", "discovery"}

NoCheck == [connected |-> 0, msgs |-> 0, relay |-> FALSE, isolated |-> FALSE, reconnect |-> FALSE,
            relay_connect |-> FALSE, seq |-> 0]

\* SharedNodeState::default(), no task running.
InitPeersIdle ==
    /\ connected_peers = 0
    /\ discovered_peers = 0
    /\ gossip_messages_received = 0
    /\ connected_map = {}
    /\ lst = [l \in Listeners |-> [pc |-> "idle", peer_count |-> 0]]
    /\ consecutive_isolation_count = 0
    /\ isolatedRun = 0
    /\ monCheck = NoCheck

Callers == {"loop", "other"}

NoAttempt == [peer |-> "", before |-> <<>>, now |-> 0, ok |-> FALSE, seq |-> 0]

\* NetworkResilience::new()
InitResIdle ==
    /\ connection_attempts = 0
    /\ callers = [c \in Callers |-> [pc |-> "idle", peer |-> ""]]
    /\ granted = 0
    /\ peer_backoff = EmptyMap
    /\ attempt = NoAttempt

\* mpsc::channel: nothing sent yet.
InitStopIdle == command_rx = <<>>

\* No node started; an empty log buffer.
NoLogsCall == [fn |-> "none", limit |-> <<>>, ret |-> <<>>, seq |-> 0]

InitHolderIdle ==
    /\ holder = <<>>
    /\ nodes = <<>>

InitLogIdle ==
    /\ log_buffer = <<>>
    /\ logged = 0
    /\ logsCall = NoLogsCall

NoVisit == [peer |-> "", outcome |-> "none", seq |-> 0]

NoLatCall == [responded_at |-> 0, sent_at |-> 0, calculated |-> 0, inline |-> 0, seq |-> 0]

NoBoot == [pc |-> "none"]

NoCallerView ==
    [enqueued |-> 0, handled |-> 0, value |-> "", stands |-> FALSE,
     got |-> [after |-> 0, data |-> <<>>, seq |-> 0]]

\* Nothing received, no restart, no latency measured, no peer visited.
InitObsIdle ==
    /\ lrecv = [msg |-> [type |-> "none"], seq |-> 0]
    /\ unverifiedMsg = [topic |-> "none", seq |-> 0]
    /\ prior = {}
    /\ restarted = FALSE
    /\ latCall = NoLatCall
    /\ latency_requests_sent = 0
    /\ latency_responses_received = 0
    /\ pending_latency = <<>>
    /\ visit = NoVisit
    /\ callerView = NoCallerView

\* No bootstrap connect under way.
InitBootIdle == boot = NoBoot

\* Empty event channel, nothing delivered on the sync topic.
InitEvIdle ==
    /\ event_queue = 0
    /\ inbox = <<>>

InitRestIdle == InitObsIdle /\ InitBootIdle /\ InitEvIdle

InitHostIdle == InitHolderIdle /\ InitLogIdle /\ InitRestIdle

InitNetIdle == InitRegIdle /\ InitPeersIdle /\ InitResIdle /\ InitStopIdle /\ InitHostIdle

InitMerge == InitLWWIdle /\ InitNodeIdle /\ InitSyncIdle /\ InitNetIdle

\* The subsets of S with at most n elements.
RECURSIVE SubsetsUpTo(_, _)
SubsetsUpTo(S, n) ==
    IF n = 0 THEN {{}}
    ELSE LET P == SubsetsUpTo(S, n - 1) IN P \cup {p \cup {x} : p \in P, x \in S}

\* Any set of at most MaxOps operations on one CRDT key.
InitLWW ==
    /\ stores = [s \in StoreIds |-> EmptyMap]
    /\ \E f \in Fields :
          opSet \in SubsetsUpTo({op \in OpUniverse : op.field = f}, MaxOps)
    /\ delivered = [s \in StoreIds |-> {}]
    /\ last = NoCall
    /\ InitNodeIdle
    /\ InitSyncIdle
    /\ InitNetIdle

\* One operation reaches store s: SyncStore::add_operation.
Deliver(s, op) ==
    /\ stores' = [stores EXCEPT ![s] = add_operation_map(@, op)]
    /\ delivered' = [delivered EXCEPT ![s] = @ \cup {op}]
    /\ UNCHANGED <<opSet, last, nodeVars, syncVars, netVars>>

\* Two operations reach store s in one vector: SyncStore::merge_operations.
DeliverBatch(s, a, b) ==
    /\ stores' = [stores EXCEPT ![s] = merge_operations_map(@, <<a, b>>)]
    /\ delivered' = [delivered EXCEPT ![s] = @ \cup {a, b}]
    /\ UNCHANGED <<opSet, last, nodeVars, syncVars, netVars>>

NextLWW ==
    \/ \E s \in StoreIds, op \in opSet : Deliver(s, op)
    \/ \E s \in StoreIds, a \in opSet, b \in opSet : DeliverBatch(s, a, b)

SpecLWW == InitLWW /\ [][NextLWW]_vars

(***************************************************************************)
(* Direct calls on one store, with the call recorded                       *)
(***************************************************************************)
CallAdd(op) ==
    /\ last' = [fn |-> "add_operation", op |-> op, before |-> stores[1],
                ret |-> add_operation_ret(stores[1], op)]
    /\ stores' = [stores EXCEPT ![1] = add_operation_map(@, op)]
    /\ UNCHANGED <<opSet, delivered, nodeVars, syncVars, netVars>>

CallAddUnverified(op) ==
    /\ last' = [fn |-> "add_operation_unverified", op |-> op, before |-> stores[1],
                ret |-> add_operation_unverified_ret(stores[1], op)]
    /\ stores' = [stores EXCEPT ![1] = add_operation_unverified_map(@, op)]
    /\ UNCHANGED <<opSet, delivered, nodeVars, syncVars, netVars>>

NextMerge ==
    \/ \E op \in OpUniverse : CallAdd(op)
    \/ \E op \in OpUniverse : CallAddUnverified(op)

SpecMerge == InitMerge /\ [][NextMerge]_vars

(***************************************************************************)
(* node.rs: the command dispatcher and the sync-topic listener of one node *)
(***************************************************************************)
LocalNodeId == "n1"

\* Number of StoreData commands that get an op_id (SignedOperation::new
\* draws a fresh UUID for each).
MaxLocalWrites == 1

\* The op_ids SignedOperation::new hands out: none of them is an inbound op_id.
LocalOpIds == 11..(10 + MaxLocalWrites)

\* String::from_utf8_lossy: invalid bytes become U+FFFD.
Utf8Lossy(value) == IF value = "bytes_ff" THEN "U+FFFD" ELSE value

\* The log of the first step of the StoreData handler.
StoreDataLog(put_ok) == IF put_ok THEN <<"put", "flush">> ELSE <<"put_failed">>

\* The handler returns to the command loop (continue) when the put failed.
StoreDataNextPc_NoContinue(put_ok) == "add"

StoreDataNextPc(put_ok) == IF put_ok THEN "add" ELSE "idle"

\* NodeCommand::StoreData, up to the first await: storage.put, storage.flush,
\* SignedOperation::new with a fresh op_id and the current time.
StoreData(db_name, key, value, pk, signature, op_id, now, put_ok) ==
    /\ dpc = "idle"
    /\ op_id \in LocalOpIds \ usedIds
    /\ cmdLog' = StoreDataLog(put_ok)
    /\ dpc' = StoreDataNextPc(put_ok)
    /\ IF put_ok
       THEN /\ storage' = MapInsert(storage, <<db_name, <<key>>>>, value)
            /\ puts' = CountPut(puts, op_id)
            /\ cur' = SignedOperation(op_id, now, db_name, key, Utf8Lossy(value), "String", <<>>, pk, signature)
            /\ usedIds' = usedIds \cup {op_id}
       ELSE UNCHANGED <<storage, puts, cur, usedIds>>
    /\ UNCHANGED <<ops, applied, syncSender, lpc, lmsg, wire, pending, redelivery, lwwVars>>

\* ... sync_store().add_operation_unverified(op.clone()); the result is dropped.
StoreDataAdd ==
    /\ dpc = "add"
    /\ ops' = add_operation_unverified_map(ops, cur)
    /\ cmdLog' = Append(cmdLog, "add")
    /\ dpc' = "broadcast"
    /\ UNCHANGED <<applied, storage, puts, syncSender, cur, usedIds, lpc, lmsg, wire, pending, redelivery, lwwVars>>

\* ... broadcast of the Operation message, when there is a sender.
StoreDataBroadcast ==
    /\ dpc = "broadcast"
    /\ IF syncSender
       THEN wire' = Operation(cur) /\ cmdLog' = Append(cmdLog, "broadcast")
       ELSE UNCHANGED <<wire, cmdLog>>
    /\ dpc' = "idle"
    /\ UNCHANGED <<ops, applied, storage, puts, syncSender, cur, usedIds, lpc, lmsg, pending, redelivery, lwwVars>>

\* NodeCommand::RequestSync
RequestSync(since_timestamp) ==
    /\ dpc = "idle"
    /\ syncSender
    /\ wire' = SyncRequest(LocalNodeId, since_timestamp)
    /\ UNCHANGED <<ops, applied, storage, puts, syncSender, dpc, cur, cmdLog, usedIds, lpc, lmsg, pending, redelivery, lwwVars>>

StoreState == [storage |-> storage, applied |-> applied, puts |-> puts]

SetStoreState(st) ==
    /\ storage' = st.storage
    /\ applied' = st.applied
    /\ puts' = st.puts

\* Listener, Operation message: add_operation; apply_to_storage follows when
\* the operation was accepted.
RecvOperation(op) ==
    /\ lpc = "idle"
    /\ ops' = add_operation_map(ops, op)
    /\ IF add_operation_ret(ops, op)
       THEN lpc' = "apply_op" /\ lmsg' = Operation(op)
       ELSE UNCHANGED <<lpc, lmsg>>
    /\ UNCHANGED <<applied, storage, puts, syncSender, dpc, cur, cmdLog, usedIds, wire, pending, redelivery, lwwVars>>

ApplyOp(put_ok) ==
    /\ lpc = "apply_op"
    /\ SetStoreState(apply_to_storage(StoreState, lmsg.operation,
                                      IF put_ok THEN {} ELSE {lmsg.operation.op_id}))
    /\ lpc' = "idle"
    /\ lmsg' = NoMessage
    /\ UNCHANGED <<ops, syncSender, dpc, cur, cmdLog, usedIds, wire, pending, redelivery, lwwVars>>

\* Every operation of the vector is retained in the LWW map and its op_id is in
\* the applied set: each was delivered, accepted and applied before.
AlreadyApplied(operations) ==
    /\ operations # <<>>
    /\ \A i \in 1..Len(operations) :
          /\ crdt_key(operations[i]) \in DOMAIN ops
          /\ ops[crdt_key(operations[i])].op = operations[i]
          /\ operations[i].op_id \in applied

\* Listener, SyncResponse message: dropped unless addressed to this node;
\* else merge_operations starts.
RecvSyncResponse(msg) ==
    /\ lpc = "idle"
    /\ IF msg.requester # LocalNodeId
       THEN UNCHANGED <<lpc, lmsg, redelivery>>
       ELSE /\ lpc' = IF msg.operations = <<>> THEN "apply_all" ELSE "merge"
            /\ lmsg' = msg
            /\ redelivery' = AlreadyApplied(msg.operations)
    /\ UNCHANGED <<ops, applied, storage, puts, syncSender, dpc, cur, cmdLog, usedIds, wire, pending, lwwVars>>

\* merge_operations: one add_operation per step (each takes the write lock).
MergeStep ==
    /\ lpc = "merge"
    /\ ops' = add_operation_map(ops, Head(lmsg.operations))
    /\ lmsg' = [lmsg EXCEPT !.operations = Tail(@)]
    /\ lpc' = IF Tail(lmsg.operations) = <<>> THEN "apply_all" ELSE "merge"
    /\ UNCHANGED <<applied, storage, puts, syncSender, dpc, cur, cmdLog, usedIds, wire, pending, redelivery, lwwVars>>

\* apply_all_to_storage: get_all_operations takes the snapshot the loop visits.
ApplyAllStart ==
    /\ lpc = "apply_all"
    /\ pending' \in IterationOrders(ops)
    /\ lpc' = "apply_loop"
    /\ UNCHANGED <<ops, applied, storage, puts, syncSender, dpc, cur, cmdLog, usedIds, lmsg, wire, redelivery, lwwVars>>

\* One iteration of the loop: apply_to_storage unless the op_id is applied.
ApplyAllStep(put_ok) ==
    /\ lpc = "apply_loop"
    /\ pending # <<>>
    /\ SetStoreState(apply_to_storage(StoreState, Head(pending),
                                      IF put_ok THEN {} ELSE {Head(pending).op_id}))
    /\ pending' = Tail(pending)
    /\ UNCHANGED <<ops, syncSender, dpc, cur, cmdLog, usedIds, lpc, lmsg, wire, redelivery, lwwVars>>

\* After the loop: the follow-up request when has_more, broadcast by the listener.
SendFollowUp ==
    /\ lpc = "apply_loop"
    /\ pending = <<>>
    /\ IF syncSender /\ FollowUp(LocalNodeId, lmsg.has_more, lmsg.continuation_token) # NoMessage
       THEN wire' = FollowUp(LocalNodeId, lmsg.has_more, lmsg.continuation_token)
       ELSE UNCHANGED wire
    /\ lpc' = "idle"
    /\ lmsg' = NoMessage
    /\ redelivery' = FALSE
    /\ UNCHANGED <<ops, applied, storage, puts, syncSender, dpc, cur, cmdLog, usedIds, pending, lwwVars>>

\* ---- what the host and the network hand to the node ----
\* Valid operations of A on its register (AppDb, "k").
OpOld == SignedFull(1, 1, AppDb, "k", "v", "String", <<>>, <<"A">>)

OpNew == SignedShort(2, 2, AppDb, "k", "w", "String", <<>>, <<"A">>)

\* The same register written by B: B's signature verifies, the database is A's.
OpForeign == SignedFull(3, 2, AppDb, "k", "x", "String", <<>>, <<"B">>)

\* A String operation with a field: another CRDT key, the same storage key.
OpField == SignedFull(4, 1, AppDb, "k", "y", "String", <<"f">>, <<"A">>)

\* A Hash operation without a field.
OpHashNoField == SignedFull(5, 2, AppDb, "h", "z", "Hash", <<>>, <<"A">>)

InboundOps == {OpOld, OpNew, Tampered(OpNew), OpForeign, OpField, OpHashNoField}

\* Longest operations vector of an inbound SyncResponse.
MaxResponseOps == 2

RECURSIVE SeqsUpTo(_, _)
SeqsUpTo(S, n) ==
    IF n = 0 THEN {<<>>}
    ELSE LET P == SeqsUpTo(S, n - 1) IN P \cup {Append(p, x) : p \in P, x \in S}

\* has_more with its token: none, a well-formed one, one that does not parse.
InboundContinuations ==
    {[has_more |-> FALSE, token |-> <<>>],
     [has_more |-> TRUE, token |-> <<TokenPrefix \o FormatI64(2)>>],
     [has_more |-> TRUE, token |-> <<TokenPrefix \o <<"x">>>>]}

ResponseOps == {OpOld, OpNew, Tampered(OpNew)}

InboundResponses ==
    {SyncResponse(LocalNodeId, o, c.has_more, c.token) :
        o \in SeqsUpTo(ResponseOps, MaxResponseOps), c \in InboundContinuations}
    \cup {SyncResponse("n2", <<OpOld>>, FALSE, <<>>)}

\* store_data(db, key, value, pk, sig) with a client's short-format signature.
\* store_data_local(db, key, value) passes an empty key and signature.
LocalWrites ==
    {[db_name |-> AppDb, key |-> "k", value |-> "u", pk |-> <<"A">>,
      signature |-> Signature(<<"A">>, "short", <<AppDb, "k", "u">>)],
     [db_name |-> AppDb, key |-> "k", value |-> "l", pk |-> <<>>, signature |-> EmptySignature]}

InitNode ==
    /\ InitLWWIdle
    /\ ops = EmptyMap
    /\ applied = {}
    /\ storage = EmptyMap
    /\ puts = EmptyMap
    /\ syncSender \in BOOLEAN
    /\ dpc = "idle"
    /\ cur = NoOp
    /\ cmdLog = <<>>
    /\ usedIds = {}
    /\ lpc = "idle"
    /\ lmsg = NoMessage
    /\ wire = NoMessage
    /\ pending = <<>>
    /\ redelivery = FALSE
    /\ InitSyncIdle
    /\ InitNetIdle

NextNode ==
    \/ /\ \E w \in LocalWrites, id \in LocalOpIds, now \in Timestamps, put_ok \in BOOLEAN :
             StoreData(w.db_name, w.key, w.value, w.pk, w.signature, id, now, put_ok)
       /\ UNCHANGED <<syncVars, netVars>>
    \/ StoreDataAdd /\ UNCHANGED <<syncVars, netVars>>
    \/ StoreDataBroadcast /\ UNCHANGED <<syncVars, netVars>>
    \/ (\E op \in InboundOps : RecvOperation(op)) /\ UNCHANGED <<syncVars, netVars>>
    \/ (\E put_ok \in BOOLEAN : ApplyOp(put_ok)) /\ UNCHANGED <<syncVars, netVars>>
    \/ (\E msg \in InboundResponses : RecvSyncResponse(msg)) /\ UNCHANGED <<syncVars, netVars>>
    \/ MergeStep /\ UNCHANGED <<syncVars, netVars>>
    \/ ApplyAllStart /\ UNCHANGED <<syncVars, netVars>>
    \/ (\E put_ok \in BOOLEAN : ApplyAllStep(put_ok)) /\ UNCHANGED <<syncVars, netVars>>
    \/ SendFollowUp /\ UNCHANGED <<syncVars, netVars>>

SpecNode == InitNode /\ [][NextNode]_vars

\* The dispatcher handling StoreData commands while the listener takes in the
\* Operation messages of a peer.
PeerOps == {OpOld, OpNew, OpForeign}

NextStore ==
    \/ /\ \E w \in LocalWrites, id \in LocalOpIds, now \in Timestamps, put_ok \in BOOLEAN :
             StoreData(w.db_name, w.key, w.value, w.pk, w.signature, id, now, put_ok)
       /\ UNCHANGED <<syncVars, netVars>>
    \/ StoreDataAdd /\ UNCHANGED <<syncVars, netVars>>
    \/ StoreDataBroadcast /\ UNCHANGED <<syncVars, netVars>>
    \/ (\E op \in PeerOps : RecvOperation(op)) /\ UNCHANGED <<syncVars, netVars>>
    \/ (\E put_ok \in BOOLEAN : ApplyOp(put_ok)) /\ UNCHANGED <<syncVars, netVars>>

SpecStore == InitNode /\ [][NextStore]_vars

(***************************************************************************)
(* A fresh node catching up from one responder                             *)
(***************************************************************************)
\* Cap of the counter of responses.
MaxRounds == 4

\* Operation number i of the responder: a valid operation of A on a key of its
\* own.  The op_ids run against the keys.
SrvOp(i, ts) == SignedFull(1000 - i, ts, AppDb, ToString(i), "v", "String", <<>>, <<"A">>)

\* How the timestamps are spread over the responder's operations: all distinct,
\* each shared by two operations, one shared by all.
Distributions == {"distinct", "pairs", "same"}

SrvTimestamp(dist, i) ==
    CASE dist = "distinct" -> i
      [] dist = "pairs" -> (i + 1) \div 2
      [] OTHER -> 7

\* The responder's LWW map with n operations.
ServerMap(n, dist) ==
    LET S == {SrvOp(i, SrvTimestamp(dist, i)) : i \in 1..n}
    IN [k \in {crdt_key(o) : o \in S} |->
            LET o == CHOOSE x \in S : crdt_key(x) = k IN [ts |-> o.timestamp, op |-> o]]

\* Numbers of operations the responder holds: none, less than a chunk, one
\* chunk, one more, two chunks.
SyncTotals == {0, 3, MAX_OPS_PER_RESPONSE, MAX_OPS_PER_RESPONSE + 1, 2 * MAX_OPS_PER_RESPONSE}

InitSync ==
    /\ InitLWWIdle
    /\ InitNodeIdle
    /\ InitNetIdle
    /\ srvOps \in {ServerMap(n, dist) : n \in SyncTotals, dist \in Distributions}
    /\ req = NoMessage
    /\ resp = NoMessage
    /\ rounds = 0

\* Nothing was requested yet.
NotStarted == req = NoMessage /\ resp = NoMessage /\ wire = NoMessage

\* run_node, the initial sync task: SyncRequest{since_timestamp: None}.
InitialSync ==
    /\ NotStarted
    /\ syncSender
    /\ wire' = SyncRequest(LocalNodeId, <<>>)
    /\ UNCHANGED <<ops, applied, storage, puts, syncSender, dpc, cur, cmdLog, usedIds, lpc, lmsg, pending, redelivery,
                   lwwVars, syncVars, netVars>>

\* The responder's listener: handle_sync_message, SyncRequest arm, on the
\* request the node broadcast; the response is broadcast.
PeerResponds ==
    /\ wire.type = "SyncRequest"
    /\ resp = NoMessage
    /\ \E sorted \in SortedSeqs(Candidates(srvOps, wire.since_timestamp)) :
          resp' = HandleSyncRequest(sorted, wire.requester)
    /\ req' = wire
    /\ wire' = NoMessage
    /\ rounds' = Min(rounds + 1, MaxRounds)
    /\ UNCHANGED <<ops, applied, storage, puts, syncSender, dpc, cur, cmdLog, usedIds, lpc, lmsg, pending, redelivery,
                   lwwVars, srvOps, netVars>>

\* The response reaches the node's listener.
NodeReceives ==
    /\ resp # NoMessage
    /\ RecvSyncResponse(resp)
    /\ resp' = NoMessage
    /\ UNCHANGED <<srvOps, req, rounds, netVars>>

NextSync ==
    \/ InitialSync
    \/ NotStarted /\ RequestSync(<<>>) /\ UNCHANGED <<syncVars, netVars>>
    \/ PeerResponds
    \/ NodeReceives
    \/ MergeStep /\ UNCHANGED <<syncVars, netVars>>
    \/ ApplyAllStart /\ UNCHANGED <<syncVars, netVars>>
    \/ ApplyAllStep(TRUE) /\ UNCHANGED <<syncVars, netVars>>
    \/ SendFollowUp /\ UNCHANGED <<syncVars, netVars>>

SpecSync == InitSync /\ [][NextSync]_vars

\* The tasks of both nodes keep running.
SpecSyncFair == InitSync /\ [][NextSync]_vars /\ WF_vars(NextSync)

(***************************************************************************)
(* Properties of the LWW merge                                             *)
(***************************************************************************)
\* a is later than b in the order (timestamp, op_id).
Newer(a, b) ==
    \/ a.timestamp > b.timestamp
    \/ a.timestamp = b.timestamp /\ a.op_id > b.op_id

\* The operations of S that carry the greatest (timestamp, op_id) pair.
Greatest(S) == {o \in S : \A p \in S : ~Newer(p, o)}

Retained(s) == {stores[s][k].op : k \in DOMAIN stores[s]}

AllDelivered == \A s \in StoreIds : delivered[s] = opSet

Verified(S) == {o \in S : verify(o) = "true"}

\* C1 as stated: once every operation of the set has reached both stores (in
\* any order, with any duplication), both stores retain one and the same
\* operation, an operation of the set with the greatest (timestamp, op_id).
C1_AsClaimed ==
    (AllDelivered /\ opSet # {}) =>
        \E o \in Greatest(opSet) : \A s \in StoreIds : Retained(s) = {o}

\* C1 (amended): once every operation of the set has reached both stores, each
\* store retains nothing if no operation of the set passes verify(), and
\* otherwise exactly one operation, which carries the greatest
\* (timestamp, op_id) pair among the operations that pass verify(); the two
\* stores hold identical maps whenever only one verified operation carries
\* that pair.
C1_LWWDeterminism ==
    AllDelivered =>
        /\ Verified(opSet) = {} => \A s \in StoreIds : stores[s] = EmptyMap
        /\ Verified(opSet) # {} =>
              \A s \in StoreIds : /\ Cardinality(Retained(s)) = 1
                                   /\ Retained(s) \subseteq Greatest(Verified(opSet))
        /\ Cardinality(Greatest(Verified(opSet))) = 1 => stores[1] = stores[2]

\* Two verified operations that share a timestamp and differ in op_id have
\* both reached both stores, which agree.
C1_Witness ==
    /\ AllDelivered
    /\ Cardinality(Verified(opSet)) = 2
    /\ Cardinality(Greatest(Verified(opSet))) = 1
    /\ \E a \in opSet, b \in opSet : a.timestamp = b.timestamp /\ a.op_id # b.op_id
    /\ stores[1] = stores[2]
    /\ stores[1] # EmptyMap

\* What the claimed merge rule says the call must do: replace the entry iff
\* there is none, or the operation is later in (timestamp, op_id).
ShouldReplace(m, op) ==
    LET k == crdt_key(op)
    IN \/ k \notin DOMAIN m
       \/ op.timestamp > m[k].ts
       \/ op.timestamp = m[k].ts /\ op.op_id > m[k].op.op_id

CallFollowsRule(replace) ==
    LET k == crdt_key(last.op)
    IN /\ replace => /\ last.ret
                     /\ stores[1] = MapInsert(last.before, k, [ts |-> last.op.timestamp, op |-> last.op])
       /\ ~replace => ~last.ret /\ stores[1] = last.before

\* The stored timestamp of no key decreased in the last call, and every entry
\* is filed under its own CRDT key with its own timestamp.
TimestampsKept ==
    /\ \A k \in DOMAIN last.before :
          k \in DOMAIN stores[1] /\ stores[1][k].ts >= last.before[k].ts
    /\ \A k \in DOMAIN stores[1] :
          crdt_key(stores[1][k].op) = k /\ stores[1][k].ts = stores[1][k].op.timestamp

\* C2 as stated: add_operation and add_operation_unverified replace the entry
\* iff none exists or the operation is later in (timestamp, op_id), and
\* otherwise return false and leave the map as it was.
C2_AsClaimed ==
    last.fn # "none" =>
        CallFollowsRule(ShouldReplace(last.before, last.op)) /\ TimestampsKept

\* C2 (amended): add_operation_unverified replaces the entry iff none exists or
\* the operation is later in (timestamp, op_id); add_operation does so iff, in
\* addition, the operation passes verify(); in every other case the call
\* returns false and leaves the map unchanged.  No stored timestamp decreases
\* and each entry is the single operation of its CRDT key.
C2_MergeRule ==
    last.fn # "none" =>
        /\ CallFollowsRule(/\ ShouldReplace(last.before, last.op)
                           /\ last.fn = "add_operation" => verify(last.op) = "true")
        /\ TimestampsKept

\* An add_operation replaced an existing entry on the op_id tiebreak.
C2_Witness ==
    /\ last.fn = "add_operation"
    /\ last.ret
    /\ crdt_key(last.op) \in DOMAIN last.before
    /\ last.before[crdt_key(last.op)].ts = last.op.timestamp
    /\ stores[1][crdt_key(last.op)].op = last.op

(***************************************************************************)
(* Properties of the node                                                  *)
(***************************************************************************)
RetainedOps == {ops[k].op : k \in DOMAIN ops}

\* C3 as stated: no operation in the node's LWW map fails both the full-format
\* and the short-format signature verification under its public_key.
C3_AsClaimed == \A o \in RetainedOps : verify(o) = "true"

\* The operations whose db_name is not bound to their public_key.
Unbound(S) == {o \in S : ~verify_db_name_secure(o.db_name, o.public_key)}

\* C4 as stated: an inbound operation whose db_name does not end with
\* "-{public_key}" is never entered into the LWW map and never written to
\* storage.
C4_AsClaimed ==
    \A o \in Unbound(InboundOps) :
        /\ o \notin RetainedOps
        /\ PutCount(puts, o.op_id) = 0
        /\ o.op_id \notin applied

\* C5 as stated: for every op_id, the storage put belonging to that operation
\* is executed at most once.
C5_AsClaimed == \A id \in DOMAIN puts : puts[id] <= 1

\* C6 as stated: delivering again an operation that was delivered (and
\* retained and applied) before, as an Operation message or inside a
\* SyncResponse addressed to this node, leaves the storage content and the
\* applied set as they were.
C6_AsClaimed ==
    [][/\ \A op \in InboundOps :
             (AlreadyApplied(<<op>>) /\ RecvOperation(op)) => (lpc' = "idle" /\ UNCHANGED <<storage, applied>>)
       /\ (redelivery /\ lpc = "apply_loop" /\ pending' # pending) => UNCHANGED <<storage, applied>>]_vars

\* The effects a StoreData handler can have logged, in order.
StoreDataLogs ==
    {<<>>, <<"put_failed">>, <<"put", "flush">>, <<"put", "flush", "add">>,
     <<"put", "flush", "add", "broadcast">>}

\* C10: the StoreData handler puts and flushes before it adds the operation to
\* the LWW map and before it broadcasts the Operation message; after a failed
\* put the handler is over: it adds no operation and broadcasts nothing.  Hence
\* every local operation in the LWW map or on the sync topic has been put.
C10_LocalWriteOrdering ==
    /\ cmdLog \in StoreDataLogs
    /\ dpc = "add" => cmdLog = <<"put", "flush">>
    /\ dpc = "broadcast" => cmdLog = <<"put", "flush", "add">>
    /\ cmdLog = <<"put_failed">> => dpc = "idle"
    /\ \A o \in RetainedOps : o.op_id \in LocalOpIds => PutCount(puts, o.op_id) >= 1
    /\ wire.type = "Operation" => PutCount(puts, wire.operation.op_id) >= 1
    /\ \A o \in RetainedOps : o.op_id \notin LocalOpIds => o \in PeerOps

\* A StoreData command went through all its steps: the operation it put is in
\* the LWW map and on the sync topic.
C10_Witness ==
    /\ cmdLog = <<"put", "flush", "add", "broadcast">>
    /\ dpc = "idle"
    /\ wire = Operation(cur)
    /\ cur \in RetainedOps
    /\ PutCount(puts, cur.op_id) >= 1

(***************************************************************************)
(* Properties of the sync exchange                                         *)
(***************************************************************************)
\* The exchange is over: a response was handled and no request is pending.
ExchangeDone ==
    /\ req # NoMessage
    /\ wire = NoMessage
    /\ resp = NoMessage
    /\ lpc = "idle"

\* C7 as stated: the exchange started by SyncRequest{None} ends (the last
\* response carried has_more = false, so no follow-up is pending) with the
\* requester's LWW map equal to the responder's.
C7_AsClaimed == <>(ExchangeDone /\ ops = srvOps)

TotalOps == Cardinality(DOMAIN srvOps)

CeilDiv(a, b) == (a + b - 1) \div b

\* C8 as stated: the responder sends at most ceil(total_ops / 128) responses
\* (one, when it holds no operation).
C8_AsClaimed ==
    rounds <= (IF TotalOps = 0 THEN 1 ELSE CeilDiv(TotalOps, MAX_OPS_PER_RESPONSE))

\* The candidate set of the request handled last.
Requested ==
    {o \in {srvOps[k].op : k \in DOMAIN srvOps} :
        req.since_timestamp = <<>> \/ o.timestamp >= req.since_timestamp[1]}

\* C9: the response to a SyncRequest holds the first min(total, 128) operations
\* of the candidate set in ascending (timestamp, op_id) order; has_more iff
\* total > 128; the continuation token is present iff has_more and is "ts:"
\* followed by the timestamp of the last operation of the chunk, the greatest
\* of the chunk; the requester id is echoed.
C9_SyncRequestHandling ==
    resp # NoMessage =>
        LET chunk == resp.operations
            total == Cardinality(Requested)
        IN /\ resp.type = "SyncResponse"
           /\ resp.requester = req.requester
           /\ Len(chunk) = Min(total, 128)
           /\ \A i \in 1..Len(chunk) : chunk[i] \in Requested
           /\ \A i \in 1..(Len(chunk) - 1) : SortsBefore(chunk[i], chunk[i + 1])
           /\ \A o \in Requested :
                 (\A i \in 1..Len(chunk) : chunk[i] # o) => \A i \in 1..Len(chunk) : SortsBefore(chunk[i], o)
           /\ resp.has_more <=> total > 128
           /\ resp.continuation_token # <<>> <=> resp.has_more
           /\ resp.has_more =>
                 /\ resp.continuation_token = <<TokenPrefix \o FormatI64(chunk[Len(chunk)].timestamp)>>
                 /\ \A i \in 1..Len(chunk) : chunk[i].timestamp <= chunk[Len(chunk)].timestamp
                 /\ ParseI64(StripPrefix(resp.continuation_token[1])[1]) = <<chunk[Len(chunk)].timestamp>>

\* A follow-up request was answered with a full chunk and a token.
C9_Witness ==
    /\ resp # NoMessage
    /\ req.since_timestamp # <<>>
    /\ Len(resp.operations) = MAX_OPS_PER_RESPONSE
    /\ resp.has_more
    /\ resp.continuation_token # <<>>

(***************************************************************************)
(* Properties of local-only writes                                         *)
(***************************************************************************)
\* An operation built from a store_data_local command: empty key and signature.
LocalOnly(o) == o.public_key = <<>> /\ o.signature = EmptySignature

\* C11 as stated: a write issued through store_data_local is never broadcast
\* as an Operation on the sync topic, and is never in the LWW map from which
\* SyncResponses are served.
C11_AsClaimed ==
    /\ wire.type = "Operation" => ~LocalOnly(wire.operation)
    /\ \A o \in RetainedOps : ~LocalOnly(o)

(***************************************************************************)
(* discovery.rs: DiscoveredPeer, PeerAnnouncement, PeerListAnnouncement    *)
(***************************************************************************)
PEER_EXPIRY_SECS == 300

\* Option<T>: None is the empty sequence, Some(x) the sequence of x alone.
None == <<>>

Some(x) == <<x>>

\* Utc::now().timestamp_millis() at second t of the clock.
UtcMillis(t) == t * 1000

DiscoveredPeer(node_id, public_key, address, region, last_seen, latency_ms) ==
    [node_id |-> node_id, public_key |-> public_key, address |-> address, region |-> region,
     last_seen |-> last_seen, latency_ms |-> latency_ms]

is_expired_Inclusive(p, now) ==
    IF p.last_seen = None THEN TRUE ELSE now - p.last_seen[1] >= PEER_EXPIRY_SECS

\* DiscoveredPeer::is_expired at time now: last_seen.elapsed() > 300 s; true for None.
is_expired(p, now) ==
    IF p.last_seen = None THEN TRUE ELSE now - p.last_seen[1] > PEER_EXPIRY_SECS

PeerAnnouncement(id, node_id, public_key, address, timestamp, signature) ==
    [id |-> id, node_id |-> node_id, public_key |-> public_key, address |-> address,
     timestamp |-> timestamp, signature |-> signature]

\* PeerAnnouncement::signing_message: "{id}:{node_id}:{timestamp}:{address or ''}"
PeerAnnouncement_signing_message(a) ==
    [form |-> "announcement", body |-> <<a.id, a.node_id, a.timestamp, a.address>>]

\* PeerAnnouncement::verify: Ok(false) for an empty signature, else verify_signature.
PeerAnnouncement_verify(a) ==
    IF a.signature = EmptySignature THEN "false"
    ELSE verify_signature(a.public_key, PeerAnnouncement_signing_message(a), a.signature)

\* PeerAnnouncement::to_discovered_peer at time now.
to_discovered_peer(a, now) ==
    DiscoveredPeer(a.node_id, a.public_key, a.address, None, Some(now), None)

PeerListAnnouncement(from_node_id, public_key, list, timestamp, signature) ==
    [from_node_id |-> from_node_id, public_key |-> public_key, peers |-> list,
     timestamp |-> timestamp, signature |-> signature]

\* PeerListAnnouncement::signing_message: "{from_node_id}:{timestamp}:{peers joined by ','}"
PeerListAnnouncement_signing_message(l) ==
    [form |-> "peer_list", body |-> <<l.from_node_id, l.timestamp, l.peers>>]

PeerListAnnouncement_verify(l) ==
    IF l.signature = EmptySignature THEN "false"
    ELSE verify_signature(l.public_key, PeerListAnnouncement_signing_message(l), l.signature)

\* peer_str.split('@').next(): a peer string is <<node_id>> or <<node_id, "@", address>>.
PeerStrNodeId(peer_str) ==
    IF peer_str = <<>> \/ Head(peer_str) = "@" THEN "" ELSE Head(peer_str)

(***************************************************************************)
(* discovery.rs: PeerRegistry.  Each function takes the registry's maps    *)
(* and yields the maps after the call and the value returned.              *)
(***************************************************************************)
MapRemove(m, k) == [x \in DOMAIN m \ {k} |-> m[x]]

\* HashMap::retain
MapRetain(m, Keep(_, _)) == [x \in {k \in DOMAIN m : Keep(k, m[k])} |-> m[x]]

RegResult(ps, cache, updated, ret) == [peers |-> ps, cache |-> cache, updated |-> updated, ret |-> ret]

\* The cache check letting an equal timestamp through.
CachedBlocks_Strict(cache, a) ==
    a.id \in DOMAIN cache /\ cache[a.id] > a.timestamp

\* process_announcement, the cache check: the cached timestamp is >= the announcement's.
CachedBlocks(cache, a) ==
    a.id \in DOMAIN cache /\ cache[a.id] >= a.timestamp

\* PeerRegistry::process_announcement; ret is is_new.
process_announcement(local_node_id, ps, cache, a, now) ==
    IF a.node_id = local_node_id THEN RegResult(ps, cache, FALSE, FALSE)
    ELSE IF CachedBlocks(cache, a) THEN RegResult(ps, cache, FALSE, FALSE)
    ELSE IF PeerAnnouncement_verify(a) # "true" THEN RegResult(ps, cache, FALSE, FALSE)
    ELSE RegResult(MapInsert(ps, a.node_id, to_discovered_peer(a, now)),
                   MapInsert(cache, a.id, a.timestamp),
                   TRUE, a.node_id \notin DOMAIN ps)

\* process_peer_list filtering out the local node only.
process_peer_list_KnownToo(local_node_id, ps, cache, l) ==
    IF l.from_node_id = local_node_id THEN RegResult(ps, cache, FALSE, <<>>)
    ELSE IF PeerListAnnouncement_verify(l) # "true" THEN RegResult(ps, cache, FALSE, <<>>)
    ELSE RegResult(ps, cache, FALSE,
                   SelectSeq(l.peers, LAMBDA peer_str : PeerStrNodeId(peer_str) # local_node_id))

\* PeerRegistry::process_peer_list; ret is the list of unknown peer strings.
process_peer_list(local_node_id, ps, cache, l) ==
    IF l.from_node_id = local_node_id THEN RegResult(ps, cache, FALSE, <<>>)
    ELSE IF PeerListAnnouncement_verify(l) # "true" THEN RegResult(ps, cache, FALSE, <<>>)
    ELSE RegResult(ps, cache, FALSE,
                   SelectSeq(l.peers, LAMBDA peer_str :
                       ~(PeerStrNodeId(peer_str) = local_node_id \/ PeerStrNodeId(peer_str) \in DOMAIN ps)))

\* PeerRegistry::update_latency
update_latency(ps, cache, node_id, latency_ms) ==
    IF node_id \in DOMAIN ps
    THEN RegResult([ps EXCEPT ![node_id].latency_ms = Some(latency_ms)], cache, TRUE, FALSE)
    ELSE RegResult(ps, cache, FALSE, FALSE)

IsLocal_Never(node_id, local_node_id) == FALSE

\* register_connected_peer / register_peer_from_list: node_id == self.local_node_id
IsLocal(node_id, local_node_id) == node_id = local_node_id

\* PeerRegistry::register_connected_peer; ret is is_new.
register_connected_peer(local_node_id, ps, cache, node_id, now) ==
    IF IsLocal(node_id, local_node_id) THEN RegResult(ps, cache, FALSE, FALSE)
    ELSE IF node_id \notin DOMAIN ps
         THEN RegResult(MapInsert(ps, node_id, DiscoveredPeer(node_id, <<>>, None, None, Some(now), None)),
                        cache, TRUE, TRUE)
         ELSE RegResult([ps EXCEPT ![node_id].last_seen = Some(now)], cache, TRUE, FALSE)

\* PeerRegistry::unregister_peer
unregister_peer(ps, cache, node_id) ==
    RegResult(MapRemove(ps, node_id), cache, node_id \in DOMAIN ps, FALSE)

\* PeerRegistry::register_peer_from_list; ret is is_new.
register_peer_from_list(local_node_id, ps, cache, node_id, address, region, now) ==
    IF IsLocal(node_id, local_node_id) THEN RegResult(ps, cache, FALSE, FALSE)
    ELSE IF node_id \notin DOMAIN ps
         THEN RegResult(MapInsert(ps, node_id, DiscoveredPeer(node_id, <<>>, address, region, Some(now), None)),
                        cache, TRUE, TRUE)
         ELSE RegResult([ps EXCEPT ![node_id] =
                            [@ EXCEPT !.last_seen = Some(now),
                                      !.address = IF address # None THEN address ELSE @,
                                      !.region = IF region # None THEN region ELSE @]],
                        cache, TRUE, FALSE)

\* PeerRegistry::peer_count
peer_count(ps) == Cardinality(DOMAIN ps)

\* PeerRegistry::cleanup_expired at time now; ret is the number of peers removed.
cleanup_expired(ps, cache, now) ==
    LET kept == MapRetain(ps, LAMBDA k, p : ~is_expired(p, now))
        cutoff == UtcMillis(now) - PEER_EXPIRY_SECS * 1000
    IN RegResult(kept, MapRetain(cache, LAMBDA k, ts : ts > cutoff),
                 kept # ps, peer_count(ps) - peer_count(kept))

(***************************************************************************)
(* The registry under calls in any order, while time passes                *)
(***************************************************************************)
\* The seconds at which calls are made: they put a peer seen at second 0 or 1
\* exactly at, and just after, the expiry age.
Instants == {0, 1, PEER_EXPIRY_SECS, PEER_EXPIRY_SECS + 1}

RegNodeIds == {LocalNodeId, "p1", "p2"}

AnnouncementIds == {"a1", "a2"}

\* Sender timestamps in ms: one that is 300 s old at second 300, and a later one.
AnnouncementTimestamps == {0, UtcMillis(2)}

SignedAnnouncement(id, node_id, timestamp) ==
    PeerAnnouncement(id, node_id, <<"A">>, None, timestamp,
                     Signature(<<"A">>, "announcement", <<id, node_id, timestamp, None>>))

\* Signed announcements, and one with a forged and one with an empty signature.
Announcements ==
    {SignedAnnouncement(id, n, ts) : id \in AnnouncementIds, n \in RegNodeIds, ts \in AnnouncementTimestamps}
    \cup {PeerAnnouncement("a1", "p1", <<"A">>, None, 0, ForgedSignature),
          PeerAnnouncement("a1", "p1", <<"A">>, None, 0, EmptySignature)}

SignedPeerList(from_node_id, list) ==
    PeerListAnnouncement(from_node_id, <<"A">>, list, 0, Signature(<<"A">>, "peer_list", <<from_node_id, 0, list>>))

PeerLists ==
    {SignedPeerList(n, <<<<"p1", "@", "ip">>, <<LocalNodeId>>, <<"p2">>>>) : n \in {LocalNodeId, "p1"}}
    \cup {PeerListAnnouncement("p1", <<"A">>, <<<<"p2">>>>, 0, ForgedSignature)}

\* (address, region) arguments of register_peer_from_list
ListedAddresses == {<<None, Some("eu")>>}

LatencyValues == {7}

RegCall(fn, node_id, id, timestamp, r) ==
    [fn |-> fn, node_id |-> node_id, id |-> id, timestamp |-> timestamp, updated |-> r.updated,
     ret |-> r.ret, seq |-> 1 - regCall.seq]

\* The registry's maps become those of result r.
RegistryBecomes(r) ==
    /\ peers' = r.peers
    /\ announcement_cache' = r.cache

ProcessAnnouncement(a) ==
    LET r == process_announcement(LocalNodeId, peers, announcement_cache, a, rclock)
    IN /\ RegistryBecomes(r)
       /\ regCall' = RegCall("process_announcement", a.node_id, a.id, a.timestamp, r)
       /\ accepted' = IF r.updated THEN accepted \cup {<<a.id, a.timestamp>>} ELSE accepted
       /\ UNCHANGED <<rclock, outsideReg>>

ProcessPeerList(l) ==
    LET r == process_peer_list(LocalNodeId, peers, announcement_cache, l)
    IN /\ RegistryBecomes(r)
       /\ regCall' = RegCall("process_peer_list", l.from_node_id, "", 0, r)
       /\ UNCHANGED <<rclock, accepted, outsideReg>>

UpdateLatency(node_id, latency_ms) ==
    LET r == update_latency(peers, announcement_cache, node_id, latency_ms)
    IN /\ RegistryBecomes(r)
       /\ regCall' = RegCall("update_latency", node_id, "", 0, r)
       /\ UNCHANGED <<rclock, accepted, outsideReg>>

RegisterConnectedPeer(node_id) ==
    LET r == register_connected_peer(LocalNodeId, peers, announcement_cache, node_id, rclock)
    IN /\ RegistryBecomes(r)
       /\ regCall' = RegCall("register_connected_peer", node_id, "", 0, r)
       /\ UNCHANGED <<rclock, accepted, outsideReg>>

UnregisterPeer(node_id) ==
    LET r == unregister_peer(peers, announcement_cache, node_id)
    IN /\ RegistryBecomes(r)
       /\ regCall' = RegCall("unregister_peer", node_id, "", 0, r)
       /\ UNCHANGED <<rclock, accepted, outsideReg>>

RegisterPeerFromList(node_id, address, region) ==
    LET r == register_peer_from_list(LocalNodeId, peers, announcement_cache, node_id, address, region, rclock)
    IN /\ RegistryBecomes(r)
       /\ regCall' = RegCall("register_peer_from_list", node_id, "", 0, r)
       /\ UNCHANGED <<rclock, accepted, outsideReg>>

CleanupExpired ==
    LET r == cleanup_expired(peers, announcement_cache, rclock)
    IN /\ RegistryBecomes(r)
       /\ regCall' = RegCall("cleanup_expired", "", "", 0, r)
       /\ UNCHANGED <<rclock, accepted, outsideReg>>

\* Time passes until instant t.
Tick(t) ==
    /\ t > rclock
    /\ rclock' = t
    /\ UNCHANGED <<peers, announcement_cache, regCall, accepted, outsideReg>>

InitRegistry == InitLWWIdle /\ InitNodeIdle /\ InitSyncIdle /\ InitNetIdle

\* Announcements are processed and the announcer sweeps, in any order.
NextAnnounce ==
    \/ \E a \in Announcements : ProcessAnnouncement(a)
    \/ CleanupExpired
    \/ \E t \in Instants : Tick(t)

SpecAnnounce == InitRegistry /\ [][NextAnnounce]_vars

\* Every function that changes the registry, in any order; the announcements
\* are those of one id, latencies are measured for the local node and p1, and
\* the local node and p2 are found in peer lists.
NextRegistry ==
    \/ \E a \in {x \in Announcements : x.id = "a1"} : ProcessAnnouncement(a)
    \/ \E l \in PeerLists : ProcessPeerList(l)
    \/ \E n \in {LocalNodeId, "p1"}, l \in LatencyValues : UpdateLatency(n, l)
    \/ \E n \in RegNodeIds : RegisterConnectedPeer(n)
    \/ \E n \in RegNodeIds : UnregisterPeer(n)
    \/ \E n \in {LocalNodeId, "p2"}, ar \in ListedAddresses : RegisterPeerFromList(n, ar[1], ar[2])
    \/ CleanupExpired
    \/ \E t \in Instants : Tick(t)

SpecRegistry == InitRegistry /\ [][NextRegistry]_vars

(***************************************************************************)
(* Properties of the registry                                              *)
(***************************************************************************)
\* C12 as stated: a process_announcement call updates the registry only if the
\* announcement's timestamp is strictly greater than that of every announcement
\* with the same id that updated it before; a replay never updates it again.
C12_AsClaimed ==
    [][(regCall'.seq # regCall.seq /\ regCall'.fn = "process_announcement" /\ regCall'.updated)
          => \A e \in accepted : e[1] = regCall'.id => regCall'.timestamp > e[2]]_vars

\* C13: the local node is never an entry of the registry, whatever functions
\* of the registry are called, with whatever arguments, in whatever order.
C13_LocalNodeAbsent == LocalNodeId \notin DOMAIN peers

\* The registry was asked to register the local node while it knew other peers.
C13_Witness ==
    /\ regCall.fn \in {"register_connected_peer", "register_peer_from_list", "process_announcement"}
    /\ regCall.node_id = LocalNodeId
    /\ peers # EmptyMap

\* The age in seconds of peer p at time now.
Age(p, now) == now - p.last_seen[1]

\* C14: at the return of cleanup_expired no peer is left whose last_seen is
\* more than 300 s in the past, every peer whose last_seen is at most 300 s
\* old is still there unchanged, and the value returned is the number of
\* entries removed.
C14_PeerExpiry ==
    [][(regCall'.seq # regCall.seq /\ regCall'.fn = "cleanup_expired") =>
          /\ \A n \in DOMAIN peers' :
                peers'[n].last_seen # None /\ Age(peers'[n], rclock') <= PEER_EXPIRY_SECS
          /\ \A n \in DOMAIN peers :
                (peers[n].last_seen # None /\ Age(peers[n], rclock) <= PEER_EXPIRY_SECS)
                   => n \in DOMAIN peers' /\ peers'[n] = peers[n]
          /\ regCall'.ret = Cardinality(DOMAIN peers \ DOMAIN peers')]_vars

\* A sweep removed a peer and kept one that was exactly 300 s old.
C14_Witness ==
    /\ regCall.fn = "cleanup_expired"
    /\ regCall.ret >= 1
    /\ \E n \in DOMAIN peers : Age(peers[n], rclock) = PEER_EXPIRY_SECS

(***************************************************************************)
(* node.rs: the shared peer counts, the topic listeners, the periodic      *)
(* announcer's sweep and the isolation monitor                             *)
(***************************************************************************)
MaxMessages == 1

\* The bootstrap node ids parsed at start: they are pushed whether or not the
\* connect that follows succeeds.
BootstrapLists == {<<"p1">>, <<"p1", "p2">>}

\* start: register_connected_peer for every bootstrap node id, in order.
RECURSIVE SeedRegistry(_, _, _)
SeedRegistry(ps, ids, now) ==
    IF ids = <<>> THEN ps
    ELSE SeedRegistry(register_connected_peer(LocalNodeId, ps, EmptyMap, Head(ids), now).peers, Tail(ids), now)

\* start: the shared state takes the number of bootstrap node ids as both
\* counts, and the registry is seeded with them.
InitPeers ==
    /\ InitLWWIdle /\ InitNodeIdle /\ InitSyncIdle
    /\ \E ids \in BootstrapLists :
          /\ connected_peers = Len(ids)
          /\ discovered_peers = Len(ids)
          /\ peers = SeedRegistry(EmptyMap, ids, 0)
    /\ announcement_cache = EmptyMap
    /\ rclock = 0
    /\ regCall = NoRegCall
    /\ accepted = {}
    /\ gossip_messages_received = 0
    /\ connected_map = {}
    /\ lst = [l \in Listeners |-> [pc |-> "idle", peer_count |-> 0]]
    /\ consecutive_isolation_count = 0
    /\ isolatedRun = 0
    /\ monCheck = NoCheck
    /\ InitResIdle
    /\ InitStopIdle
    /\ InitHostIdle

\* A listener has made its registry call and goes on to read the count.
ListenerRegistered(l, r) ==
    /\ lst[l].pc = "idle"
    /\ peers' = r.peers
    /\ announcement_cache' = r.cache
    /\ lst' = [lst EXCEPT ![l].pc = "count"]

\* Data topic listener, GossipEvent::NeighborUp(peer_id)
NeighborUp(p) ==
    /\ p \notin connected_map
    /\ connected_map' = connected_map \cup {p}
    /\ ListenerRegistered("data", register_connected_peer(LocalNodeId, peers, announcement_cache, p, rclock))
    /\ UNCHANGED <<connected_peers, discovered_peers, gossip_messages_received, consecutive_isolation_count,
                   isolatedRun, monCheck, rclock, regCall, accepted, lwwVars, nodeVars, syncVars, resVars, stopVars, hostVars>>

\* Data topic listener, GossipEvent::NeighborDown(peer_id)
NeighborDown(p) ==
    /\ p \in connected_map
    /\ connected_map' = connected_map \ {p}
    /\ ListenerRegistered("data", unregister_peer(peers, announcement_cache, p))
    /\ UNCHANGED <<connected_peers, discovered_peers, gossip_messages_received, consecutive_isolation_count,
                   isolatedRun, monCheck, rclock, regCall, accepted, lwwVars, nodeVars, syncVars, resVars, stopVars, hostVars>>

\* Data topic listener, GossipEvent::Received: the message counter goes up.
DataReceived ==
    /\ lst["data"].pc = "idle"
    /\ gossip_messages_received < MaxMessages
    /\ gossip_messages_received' = gossip_messages_received + 1
    /\ UNCHANGED <<connected_peers, discovered_peers, connected_map, lst, consecutive_isolation_count,
                   isolatedRun, monCheck, regVars, lwwVars, nodeVars, syncVars, resVars, stopVars, hostVars>>

\* Discovery topic listener, DiscoveryMessage::Announce
AnnounceReceived(a) ==
    /\ ListenerRegistered("discovery", process_announcement(LocalNodeId, peers, announcement_cache, a, rclock))
    /\ UNCHANGED <<connected_peers, discovered_peers, gossip_messages_received, connected_map,
                   consecutive_isolation_count, isolatedRun, monCheck, rclock, regCall, accepted,
                   lwwVars, nodeVars, syncVars, resVars, stopVars, hostVars>>

\* A listener: let peer_count = peer_registry.read().peer_count()
ListenerCount(l) ==
    /\ lst[l].pc = "count"
    /\ lst' = [lst EXCEPT ![l] = [pc |-> "state", peer_count |-> peer_count(peers)]]
    /\ UNCHANGED <<connected_peers, discovered_peers, gossip_messages_received, connected_map,
                   consecutive_isolation_count, isolatedRun, monCheck, regVars, lwwVars, nodeVars, syncVars, resVars, stopVars, hostVars>>

\* A listener: both counts of the shared state are set to the count it read.
ListenerState(l) ==
    /\ lst[l].pc = "state"
    /\ connected_peers' = lst[l].peer_count
    /\ discovered_peers' = lst[l].peer_count
    /\ lst' = [lst EXCEPT ![l].pc = "idle"]
    /\ UNCHANGED <<gossip_messages_received, connected_map, consecutive_isolation_count, isolatedRun,
                   monCheck, regVars, lwwVars, nodeVars, syncVars, resVars, stopVars, hostVars>>

\* The periodic announcer, the end of its round: cleanup_expired().
AnnouncerSweep ==
    LET r == cleanup_expired(peers, announcement_cache, rclock)
    IN /\ peers' = r.peers
       /\ announcement_cache' = r.cache
       /\ UNCHANGED <<rclock, regCall, accepted, peerVars, lwwVars, nodeVars, syncVars, resVars, stopVars, hostVars>>

ReconnectDue_Second(count) == count >= 2

\* The monitor: consecutive_isolation_count >= 3
ReconnectDue(count) == count >= 3

\* let is_isolated = connected == 0 || (msgs == 0 && relay_urls.is_empty())
is_isolated(connected, msgs, relay) == connected = 0 \/ (msgs = 0 /\ ~relay)

\* One round of the monitor's loop.  relay: the endpoint has a relay URL at
\* this check.  A reconnection round connects to each bootstrap peer through
\* the relay if there is one; its outcome shows as later NeighborUp events.
MonitorCheck(relay, bootstrap_peers) ==
    LET isolated == is_isolated(connected_peers, gossip_messages_received, relay)
        counted == IF isolated THEN consecutive_isolation_count + 1 ELSE 0
        due == isolated /\ ReconnectDue(counted)
    IN /\ consecutive_isolation_count' = IF due THEN 0 ELSE counted
       /\ monCheck' = [connected |-> connected_peers, msgs |-> gossip_messages_received, relay |-> relay,
                       isolated |-> isolated, reconnect |-> due,
                       relay_connect |-> due /\ relay /\ bootstrap_peers # <<>>, seq |-> 1 - monCheck.seq]
       /\ isolatedRun' = IF isolated /\ ~due THEN isolatedRun + 1 ELSE 0
       /\ UNCHANGED <<connected_peers, discovered_peers, gossip_messages_received, connected_map, lst,
                      regVars, lwwVars, nodeVars, syncVars, resVars, stopVars, hostVars>>

\* The announcement the discovery topic delivers: a signed one, of p2.
AnnouncementOfP2 == SignedAnnouncement("a1", "p2", 0)

NextPeers ==
    \/ \E p \in {"p1", "p2"} : NeighborUp(p)
    \/ \E p \in {"p1", "p2"} : NeighborDown(p)
    \/ DataReceived
    \/ AnnounceReceived(AnnouncementOfP2)
    \/ \E l \in Listeners : ListenerCount(l)
    \/ \E l \in Listeners : ListenerState(l)
    \/ AnnouncerSweep
    \/ \E relay \in BOOLEAN, b \in BootstrapLists : MonitorCheck(relay, b)
    \/ Tick(PEER_EXPIRY_SECS + 1)

SpecPeers == InitPeers /\ [][NextPeers]_vars

(***************************************************************************)
(* Properties of the peer counts and of the isolation monitor              *)
(***************************************************************************)
\* C15 as stated: whenever no listener is in the middle of handling an event,
\* connected_peers and discovered_peers equal each other and peer_count().
C15_AsClaimed ==
    (\A l \in Listeners : lst[l].pc = "idle")
        => connected_peers = discovered_peers /\ connected_peers = peer_count(peers)

\* C18: the monitor starts a reconnection round exactly at a check that is
\* the third isolated check in a row since the last reset, where isolated
\* means connected == 0, or no message received and no relay URL; a check
\* that is not isolated and a reconnection round both leave the counter at 0,
\* and the counter is in 0..2 after every check.
C18_IsolationTrigger ==
    [][(monCheck'.seq # monCheck.seq) =>
          /\ monCheck'.isolated <=>
                (monCheck'.connected = 0 \/ (monCheck'.msgs = 0 /\ ~monCheck'.relay))
          /\ monCheck'.reconnect <=> (monCheck'.isolated /\ isolatedRun = 2)
          /\ ~monCheck'.isolated => consecutive_isolation_count' = 0
          /\ monCheck'.reconnect => consecutive_isolation_count' = 0
          /\ consecutive_isolation_count' \in 0..2
          /\ consecutive_isolation_count' = isolatedRun']_vars

\* A reconnection round through the relay was made.
C18_Witness ==
    /\ monCheck.reconnect
    /\ monCheck.relay_connect
    /\ consecutive_isolation_count = 0

\* C19 as stated: whenever no peer is connected, the monitor's next check
\* classifies the node as isolated (so that a node started with a bootstrap
\* peer it cannot reach reconnects at its third check).
C19_AsClaimed ==
    [][(monCheck'.seq # monCheck.seq /\ connected_map = {}) => monCheck'.isolated]_vars

(***************************************************************************)
(* network_resilience.rs: the per-cycle connection budget and the backoff  *)
(* table of the bootstrap reconnect loop                                   *)
(***************************************************************************)
max_connections_per_cycle == 8

base_secs == 2

max_secs == 300

U64_BITS == 64

MaxTime == 20

\* Failure counts a peer's entry may have come to before: just below the cap of
\* the delay and just below the width of u64.
PriorFailures == {1, 8, 63}

BootstrapPeers == {"b1"}

\* prev < self.max_connections_per_cycle on u32: a negative representative
\* stands for a value of 2^31 or more.
UnsignedLess(prev, max) == 0 <= prev /\ prev < max

\* base_secs.checked_shl(failures - 1).unwrap_or(max_secs).min(max_secs) on
\* u64: checked_shl is None only for a shift of 64 or more; the bits shifted
\* out at the top are lost, so 2 << 63 is 0.
backoff_secs(failures) ==
    LET shift == failures - 1
    IN IF shift >= U64_BITS THEN max_secs
       ELSE IF shift + 1 >= U64_BITS THEN 0
       ELSE IF shift + 1 >= 30 THEN max_secs
       ELSE Min(base_secs * 2^shift, max_secs)

\* The result handling of the reconnect loop: the table after the connect to
\* peer ended with ok at time now.  The count's saturating_add(1) is + 1 for
\* every count below 2^32 - 1.
record_result(pb, peer, ok, now) ==
    IF ok THEN MapRemove(pb, peer)
    ELSE LET failures == IF peer \in DOMAIN pb THEN pb[peer][1] + 1 ELSE 1
         IN MapInsert(pb, peer, <<failures, now + backoff_secs(failures)>>)

\* allow_connection_attempt, the fetch_add by task c: it goes on at pc
\* allowed if the call returns true, and has its increment to revert if not.
FetchAdd(c, allowed) ==
    LET prev == connection_attempts
    IN /\ connection_attempts' = prev + 1
       /\ IF UnsignedLess(prev, max_connections_per_cycle)
          THEN /\ callers' = [callers EXCEPT ![c] = allowed]
               /\ granted' = granted + 1
          ELSE /\ callers' = [callers EXCEPT ![c].pc = "revert"]
               /\ UNCHANGED granted

\* The backoff check that never holds a peer back.
InBackoff_Never(pb, peer, now) == FALSE

\* The reconnect loop's backoff check: the peer has an entry and the current
\* time is before its next_allowed.
InBackoff(pb, peer, now) == peer \in DOMAIN pb /\ now < pb[peer][2]

\* The reconnect loop comes to peer: it is past the peer's backoff and calls
\* allow_connection_attempt.
LoopAttempt(peer) ==
    /\ callers["loop"].pc = "idle"
    /\ ~InBackoff(peer_backoff, peer, rclock)
    /\ FetchAdd("loop", [pc |-> "connect", peer |-> peer])
    /\ UNCHANGED <<peer_backoff, attempt, regVars, peerVars, lwwVars, nodeVars, syncVars, stopVars, hostVars>>

\* Another task calls allow_connection_attempt.
OtherAttempt ==
    /\ callers["other"].pc = "idle"
    /\ FetchAdd("other", [pc |-> "idle", peer |-> ""])
    /\ UNCHANGED <<peer_backoff, attempt, regVars, peerVars, lwwVars, nodeVars, syncVars, stopVars, hostVars>>

\* allow_connection_attempt, the fetch_sub that reverts the increment.
Revert(c) ==
    /\ callers[c].pc = "revert"
    /\ connection_attempts' = connection_attempts - 1
    /\ callers' = [callers EXCEPT ![c] = [pc |-> "idle", peer |-> ""]]
    /\ UNCHANGED <<granted, peer_backoff, attempt, regVars, peerVars, lwwVars, nodeVars, syncVars, stopVars, hostVars>>

\* The reconnect loop: the connect has ended, the result is recorded.
LoopResult(ok) ==
    LET peer == callers["loop"].peer
    IN /\ callers["loop"].pc = "connect"
       /\ peer_backoff' = record_result(peer_backoff, peer, ok, rclock)
       /\ attempt' = [peer |-> peer,
                      before |-> IF peer \in DOMAIN peer_backoff THEN Some(peer_backoff[peer]) ELSE None,
                      now |-> rclock, ok |-> ok, seq |-> 1 - attempt.seq]
       /\ callers' = [callers EXCEPT !["loop"] = [pc |-> "idle", peer |-> ""]]
       /\ UNCHANGED <<connection_attempts, granted, regVars, peerVars, lwwVars, nodeVars, syncVars, stopVars, hostVars>>

\* start_background: connection_attempts.store(0)
ResetCycle ==
    /\ connection_attempts' = 0
    /\ granted' = 0
    /\ UNCHANGED <<callers, peer_backoff, attempt, regVars, peerVars, lwwVars, nodeVars, syncVars, stopVars, hostVars>>

\* No entry, or an entry left by earlier failures whose backoff is over.
InitResilience ==
    /\ InitLWWIdle /\ InitNodeIdle /\ InitSyncIdle /\ InitRegIdle /\ InitPeersIdle /\ InitStopIdle
    /\ InitHostIdle
    /\ connection_attempts = 0
    /\ callers = [c \in Callers |-> [pc |-> "idle", peer |-> ""]]
    /\ granted = 0
    /\ peer_backoff \in {EmptyMap} \cup {[p \in BootstrapPeers |-> <<f, 0>>] : f \in PriorFailures}
    /\ attempt = NoAttempt

\* The tasks take their steps in any order; time passes until a peer's
\* backoff is over, up to MaxTime.
NextResilience ==
    \/ \E peer \in BootstrapPeers : LoopAttempt(peer)
    \/ OtherAttempt
    \/ \E c \in Callers : Revert(c)
    \/ \E ok \in BOOLEAN : LoopResult(ok)
    \/ ResetCycle
    \/ \E peer \in DOMAIN peer_backoff : peer_backoff[peer][2] <= MaxTime /\ Tick(peer_backoff[peer][2])

SpecResilience == InitResilience /\ [][NextResilience]_vars

(***************************************************************************)
(* Properties of the connection budget and of the backoff table            *)
(***************************************************************************)
\* C16 as stated: between two consecutive resets of connection_attempts,
\* allow_connection_attempt returns true at most 8 times.
C16_AsClaimed == granted <= max_connections_per_cycle

\* min(2^(failure_count - 1), 300)
ClaimedDelay(failure_count) ==
    IF failure_count - 1 >= 30 THEN 300 ELSE Min(2^(failure_count - 1), 300)

\* C17 as stated: after a failed connect the peer's failure_count is the
\* count before plus one (1 without an entry) and next_allowed_time is
\* now + min(2^(failure_count - 1), 300) seconds; after a successful connect
\* the peer has no entry.
C17_AsClaimed ==
    [][(attempt'.seq # attempt.seq) =>
          LET peer == attempt'.peer
              count == IF attempt'.before = None THEN 1 ELSE attempt'.before[1][1] + 1
          IN IF attempt'.ok THEN peer \notin DOMAIN peer_backoff'
             ELSE /\ peer \in DOMAIN peer_backoff'
                  /\ peer_backoff'[peer] = <<count, attempt'.now + ClaimedDelay(count)>>]_vars

(***************************************************************************)
(* node.rs: the command loop with the Stop command                         *)
(***************************************************************************)
MaxQueue == 2

\* mpsc::channel(100) of NodeEvents
EVENT_CHANNEL_CAPACITY == 100

StopCommand == [type |-> "Stop"]

StoreDataCommand(w) == [type |-> "StoreData", w |-> w]

\* The host sends a command; the channel is closed once the loop is left.
SendCommand(cmd) ==
    /\ dpc # "stopped"
    /\ Len(command_rx) < MaxQueue
    /\ command_rx' = Append(command_rx, cmd)
    /\ UNCHANGED <<lwwVars, nodeVars, syncVars, regVars, peerVars, resVars, hostVars>>

\* command_rx.recv() yields a StoreData command.
RecvStoreData(op_id, now, put_ok) ==
    /\ command_rx # <<>>
    /\ Head(command_rx).type = "StoreData"
    /\ LET w == Head(command_rx).w
       IN StoreData(w.db_name, w.key, w.value, w.pk, w.signature, op_id, now, put_ok)
    /\ command_rx' = Tail(command_rx)
    /\ UNCHANGED <<syncVars, regVars, peerVars, resVars, hostVars>>

AfterFlush_Abort(flush_ok) == IF flush_ok THEN "stop_emit" ELSE "idle"

\* NodeCommand::Stop: whatever storage.flush() returned, the handler goes on.
AfterFlush(flush_ok) == "stop_emit"

\* command_rx.recv() yields Stop: storage.flush()
StopFlush(flush_ok) ==
    /\ dpc = "idle"
    /\ command_rx # <<>>
    /\ Head(command_rx).type = "Stop"
    /\ command_rx' = Tail(command_rx)
    /\ cmdLog' = IF flush_ok THEN <<"flush">> ELSE <<"flush_failed">>
    /\ dpc' = AfterFlush(flush_ok)
    /\ UNCHANGED <<ops, applied, storage, puts, syncSender, cur, usedIds, lpc, lmsg, wire, pending, redelivery,
                   lwwVars, syncVars, regVars, peerVars, resVars, hostVars>>

\* One more step of the Stop handler: at pc, effect is done and next follows.
StopStep(pc, effect, next) ==
    /\ dpc = pc
    /\ cmdLog' = Append(cmdLog, effect)
    /\ dpc' = next
    /\ UNCHANGED <<ops, applied, storage, puts, syncSender, cur, usedIds, lpc, lmsg, wire, pending, redelivery,
                   lwwVars, syncVars, netVars>>

\* event_tx.send(NodeEvent::Stopped).await: completes when the event channel
\* has room; the receiver is held by the node, so the channel is not closed.
StopEmit ==
    /\ dpc = "stop_emit"
    /\ event_queue < EVENT_CHANNEL_CAPACITY
    /\ event_queue' = event_queue + 1
    /\ cmdLog' = Append(cmdLog, "Stopped")
    /\ dpc' = "stop_shutdown"
    /\ UNCHANGED <<ops, applied, storage, puts, syncSender, cur, usedIds, lpc, lmsg, wire, pending, redelivery,
                   lwwVars, syncVars, regVars, peerVars, resVars, stopVars, holderVars, logVars,
                   obsVars, restartVars, callerVars, latVars, loopVars, bootVars, inbox>>

\* router.shutdown().await
StopShutdown == StopStep("stop_shutdown", "router_shutdown", "stop_respond")

\* response.send(()); break
StopRespond == StopStep("stop_respond", "respond", "stopped")

HostCommands == {StopCommand} \cup {StoreDataCommand(w) : w \in LocalWrites}

NextStop ==
    \/ \E cmd \in HostCommands : SendCommand(cmd)
    \/ \E id \in LocalOpIds, now \in Timestamps, put_ok \in BOOLEAN : RecvStoreData(id, now, put_ok)
    \/ StoreDataAdd /\ UNCHANGED <<syncVars, netVars>>
    \/ StoreDataBroadcast /\ UNCHANGED <<syncVars, netVars>>
    \/ \E flush_ok \in BOOLEAN : StopFlush(flush_ok)
    \/ StopEmit
    \/ StopShutdown
    \/ StopRespond

SpecStop == InitNode /\ [][NextStop]_vars

(***************************************************************************)
(* Properties of the Stop command                                          *)
(***************************************************************************)
\* The effects of a Stop command in order, after a flush that ended with f.
StopLog(f) == <<f, "Stopped", "router_shutdown", "respond">>

StopPcs == <<"stop_emit", "stop_shutdown", "stop_respond", "stopped">>

\* C20: the Stop handler flushes storage, emits Stopped, shuts the router
\* down, answers the caller and leaves the loop, in this order; a failed flush
\* does not end the handler; once the loop is left nothing the dispatcher
\* owns changes any more and no command behind Stop is received.
C20_StopSequence ==
    [][/\ (cmdLog' # <<>> /\ cmdLog'[1] \in {"flush", "flush_failed"}) =>
              \E i \in 1..4 : dpc' = StopPcs[i] /\ cmdLog' = SubSeq(StopLog(cmdLog'[1]), 1, i)
       /\ dpc' = "stopped" => cmdLog' \in {StopLog("flush"), StopLog("flush_failed")}
       /\ dpc = "stopped" => UNCHANGED <<nodeVars, command_rx>>]_vars

\* The loop was left after a failed flush, with a command still in the channel.
C20_Witness ==
    /\ dpc = "stopped"
    /\ cmdLog = StopLog("flush_failed")
    /\ command_rx # <<>>

(***************************************************************************)
(* api.rs: the node holder, start_node and stop_node                       *)
(***************************************************************************)
\* Number of start_node calls in which CyberflyNode::start succeeds.
MaxStarts == 3

\* API calls in flight that hold a clone of one node's Arc (get_node).
MaxCalls == 1

\* CyberflyNode::start returned Ok: run_node is spawned and with it, one
\* after the other, the topic listeners, the announcer and the monitor.
StartedNode == [dispatcher |-> "running", listeners |-> TRUE, periodic |-> TRUE, refs |-> 0]

\* The CyberflyNode of node n is alive: the holder's Arc or a clone of it exists.
Referenced(h, ns, n) == h = Some(n) \/ ns[n].refs > 0

\* The last Arc of node n is gone: CyberflyNode is dropped and with it
\* command_tx, the only sender of the command channel.
Dropped(h, ns, n) == ~Referenced(h, ns, n)

\* The Stop arm of the command loop, as stop() sees it: router.shutdown() ends
\* the gossip receivers the listeners read from; the loop is left.  The
\* announcer and the monitor are loops without an exit.
StoppedNode(node) == [node EXCEPT !.dispatcher = "ended", !.listeners = FALSE]

\* start_node: CyberflyNode::start on the runtime, then, when it returned Ok,
\* *get_node_holder().write() = Some(Arc::new(node)); the Arc the holder held
\* before is dropped by the assignment.
start_node(ok) ==
    /\ Len(nodes) < MaxStarts
    /\ IF ok
       THEN /\ nodes' = Append(nodes, StartedNode)
            /\ holder' = Some(Len(nodes) + 1)
       ELSE UNCHANGED <<holder, nodes>>
    /\ UNCHANGED outsideHolder

\* stop_node: take() empties the holder; stop() is called only if
\* Arc::try_unwrap succeeds, that is if no clone of the Arc is left.
stop_node ==
    /\ holder' = None
    /\ IF holder # None /\ nodes[holder[1]].refs = 0
       THEN nodes' = [nodes EXCEPT ![holder[1]] = StoppedNode(@)]
       ELSE UNCHANGED nodes
    /\ UNCHANGED outsideHolder

\* An API call begins: get_node() clones the Arc in the holder.
ApiCallBegin ==
    /\ holder # None
    /\ nodes[holder[1]].refs < MaxCalls
    /\ nodes' = [nodes EXCEPT ![holder[1]].refs = @ + 1]
    /\ UNCHANGED <<holder, outsideHolder>>

\* An API call on node n returns: its clone is dropped.
ApiCallEnd(n) ==
    /\ nodes[n].refs > 0
    /\ nodes' = [nodes EXCEPT ![n].refs = @ - 1]
    /\ UNCHANGED <<holder, outsideHolder>>

\* command_rx.recv() returns None once every sender is dropped: the while let
\* loop of run_node ends, without the Stop arm having run.
ChannelClosed(n) ==
    /\ nodes[n].dispatcher = "running"
    /\ Dropped(holder, nodes, n)
    /\ nodes' = [nodes EXCEPT ![n].dispatcher = "ended"]
    /\ UNCHANGED <<holder, outsideHolder>>

NextHolder ==
    \/ \E ok \in BOOLEAN : start_node(ok)
    \/ stop_node
    \/ ApiCallBegin
    \/ \E n \in DOMAIN nodes : ApiCallEnd(n)
    \/ \E n \in DOMAIN nodes : ChannelClosed(n)

SpecHolder == InitMerge /\ [][NextHolder]_vars

\* A dispatcher, a listener or a periodic task of node n is running.
Running(n) == nodes[n].dispatcher = "running" \/ nodes[n].listeners \/ nodes[n].periodic

\* C21 as stated: at most one node has a dispatcher, listeners or periodic
\* tasks running, whatever start_node and stop_node calls were made.
C21_AsClaimed == Cardinality({n \in DOMAIN nodes : Running(n)}) <= 1

(***************************************************************************)
(* api.rs: the log buffer                                                  *)
(***************************************************************************)
MAX_LOG_ENTRIES == 500

\* limit.unwrap_or(100)
DEFAULT_LOG_LIMIT == 100

\* add_log_entry calls of one run.
MaxLogged == 4

\* Entries the buffer holds at the start, in some runs: two short of full.
Prefilled == MAX_LOG_ENTRIES - 2

LogEntry(timestamp, level, message) == [timestamp |-> timestamp, level |-> level, message |-> message]

\* if guard.len() > MAX_LOG_ENTRIES { pop_front }
add_log_entry_Late(buf, e) ==
    Append(IF Len(buf) > MAX_LOG_ENTRIES THEN Tail(buf) ELSE buf, e)

\* add_log_entry: pop_front when the buffer is full, then push_back.
add_log_entry(buf, e) ==
    Append(IF Len(buf) >= MAX_LOG_ENTRIES THEN Tail(buf) ELSE buf, e)

\* Iterator::rev
Reverse(q) == [i \in 1..Len(q) |-> q[Len(q) + 1 - i]]

\* Iterator::take
Take(q, n) == SubSeq(q, 1, Min(n, Len(q)))

\* get_logs: guard.iter().rev().take(limit).collect().into_iter().rev().collect()
get_logs(buf, limit) ==
    LET n == IF limit = None THEN DEFAULT_LOG_LIMIT ELSE limit[1]
    IN Reverse(Take(Reverse(buf), n))

\* clear_logs
clear_logs(buf) == <<>>

\* Levels and limits of the calls; message number i is written by call i, the
\* entries written before the run have the numbers up to 0.
LogLevels == {"INFO", "WARN"}

LogLimits == {None, Some(0), Some(2), Some(DEFAULT_LOG_LIMIT), Some(MAX_LOG_ENTRIES + 100)}

AddLogEntry(level) ==
    /\ logged < MaxLogged
    /\ log_buffer' = add_log_entry(log_buffer, LogEntry(rclock, level, logged + 1))
    /\ logged' = logged + 1
    /\ logsCall' = [fn |-> "add_log_entry", limit |-> None, ret |-> <<>>, seq |-> 1 - logsCall.seq]
    /\ UNCHANGED outsideLog

GetLogs(limit) ==
    /\ logsCall' = [fn |-> "get_logs", limit |-> limit, ret |-> get_logs(log_buffer, limit),
                    seq |-> 1 - logsCall.seq]
    /\ UNCHANGED <<log_buffer, logged, outsideLog>>

ClearLogs ==
    /\ log_buffer' = clear_logs(log_buffer)
    /\ logsCall' = [fn |-> "clear_logs", limit |-> None, ret |-> <<>>, seq |-> 1 - logsCall.seq]
    /\ UNCHANGED <<logged, outsideLog>>

\* The buffer is empty, or it holds what earlier add_log_entry calls left.
InitLogs ==
    /\ InitLWWIdle /\ InitNodeIdle /\ InitSyncIdle
    /\ InitRegIdle /\ InitPeersIdle /\ InitResIdle /\ InitStopIdle /\ InitHolderIdle /\ InitRestIdle
    /\ log_buffer \in {<<>>, [i \in 1..Prefilled |-> LogEntry(0, "INFO", i - Prefilled)]}
    /\ logged = 0
    /\ logsCall = NoLogsCall

NextLogs ==
    \/ \E level \in LogLevels : AddLogEntry(level)
    \/ \E limit \in LogLimits : GetLogs(limit)
    \/ ClearLogs

SpecLogs == InitLogs /\ [][NextLogs]_vars

(***************************************************************************)
(* Properties of the log buffer                                            *)
(***************************************************************************)
\* C22: the buffer never holds more than 500 entries; add_log_entry puts the
\* new entry last, keeps the others in order and drops the first one exactly
\* when the buffer held 500; get_logs(limit) returns the last min(limit, len)
\* entries of the buffer in the buffer's order, limit being 100 when absent.
C22_LogBuffer ==
    [][/\ Len(log_buffer) <= MAX_LOG_ENTRIES
       /\ Len(log_buffer') <= MAX_LOG_ENTRIES
       /\ (logsCall'.seq # logsCall.seq /\ logsCall'.fn = "add_log_entry") =>
             LET dropped == IF Len(log_buffer) = MAX_LOG_ENTRIES THEN 1 ELSE 0
             IN /\ Len(log_buffer') = Len(log_buffer) + 1 - dropped
                /\ log_buffer'[Len(log_buffer')].message = logged'
                /\ \A i \in 1..(Len(log_buffer) - dropped) : log_buffer'[i] = log_buffer[i + dropped]
       /\ (logsCall'.seq # logsCall.seq /\ logsCall'.fn = "get_logs") =>
             LET limit == IF logsCall'.limit = <<>> THEN 100 ELSE logsCall'.limit[1]
                 k == IF limit < Len(log_buffer) THEN limit ELSE Len(log_buffer)
             IN /\ Len(logsCall'.ret) = k
                /\ \A i \in 1..k : logsCall'.ret[i] = log_buffer[Len(log_buffer) - k + i]
                /\ log_buffer' = log_buffer]_vars

\* get_logs(None) on a buffer that was full when the last entries were added.
C22_Witness ==
    /\ logsCall.fn = "get_logs"
    /\ logsCall.limit = <<>>
    /\ Len(logsCall.ret) = 100
    /\ Len(log_buffer) = MAX_LOG_ENTRIES
    /\ logged = MaxLogged
    /\ log_buffer[1].message = logged + 1 - MAX_LOG_ENTRIES

(***************************************************************************)
(* sync.rs, node.rs: an operation whose signature verifies in neither      *)
(* format, delivered as an Operation message or inside a SyncResponse      *)
(***************************************************************************)
\* The newest write to the register (AppDb, "k"), by its owner, with the
\* signature bytes altered: without the signature check LWW would accept it.
OpBad == Tampered(SignedFull(6, 3, AppDb, "k", "b", "String", <<>>, <<"A">>))

RejectOps == {OpOld, OpBad}

RejectResponses ==
    {SyncResponse(LocalNodeId, o, FALSE, <<>>) :
        o \in SeqsUpTo(RejectOps, MaxResponseOps) \ {<<>>}}

\* The message the sync listener took from the topic last.
Received(msg) == lrecv' = [msg |-> msg, seq |-> 1 - lrecv.seq]

outsideListen ==
    <<syncVars, regVars, peerVars, resVars, stopVars, holderVars, logVars,
      unverifiedMsg, restartVars, callerVars, latVars, loopVars, bootVars, evVars>>

NextReject ==
    \/ /\ \E w \in LocalWrites, id \in LocalOpIds, put_ok \in BOOLEAN :
             StoreData(w.db_name, w.key, w.value, w.pk, w.signature, id, 2, put_ok)
       /\ UNCHANGED <<syncVars, netVars>>
    \/ StoreDataAdd /\ UNCHANGED <<syncVars, netVars>>
    \/ StoreDataBroadcast /\ UNCHANGED <<syncVars, netVars>>
    \/ \E op \in RejectOps :
          RecvOperation(op) /\ Received(Operation(op)) /\ UNCHANGED outsideListen
    \/ (\E put_ok \in BOOLEAN : ApplyOp(put_ok)) /\ UNCHANGED <<syncVars, netVars>>
    \/ \E msg \in RejectResponses :
          RecvSyncResponse(msg) /\ Received(msg) /\ UNCHANGED outsideListen
    \/ MergeStep /\ UNCHANGED <<syncVars, netVars>>
    \/ ApplyAllStart /\ UNCHANGED <<syncVars, netVars>>
    \/ (\E put_ok \in BOOLEAN : ApplyAllStep(put_ok)) /\ UNCHANGED <<syncVars, netVars>>
    \/ SendFollowUp /\ UNCHANGED <<syncVars, netVars>>

SpecReject == InitNode /\ [][NextReject]_vars

\* The signature is the altered one (judged by the bytes, not by verify).
BadSignature(op) == op.signature = ForgedSignature

AllBad(operations) ==
    /\ operations # <<>>
    /\ \A i \in 1..Len(operations) : BadSignature(operations[i])

\* C23: add_operation on an operation whose signature verifies in neither
\* format returns false and leaves the LWW map unchanged; delivered as an
\* Operation message it changes neither the map, the storage nor the applied
\* set and no apply follows; inside a SyncResponse its merge step leaves the
\* map, the storage and the applied set unchanged; and the operation is never
\* retained, never written and never marked applied.
C23_BadSignatureRejected ==
    [][/\ \A op \in RejectOps : BadSignature(op) =>
              /\ ~add_operation_ret(ops, op)
              /\ add_operation_map(ops, op) = ops
       /\ (lrecv'.seq # lrecv.seq /\ lrecv'.msg.type = "Operation"
              /\ BadSignature(lrecv'.msg.operation))
          => (UNCHANGED <<ops, applied, storage, puts>> /\ lpc' = "idle")
       /\ (lpc = "merge" /\ lmsg' # lmsg /\ BadSignature(Head(lmsg.operations)))
          => UNCHANGED <<ops, applied, storage, puts>>
       /\ \A op \in RejectOps : BadSignature(op) =>
              /\ op.op_id \notin applied'
              /\ PutCount(puts', op.op_id) = 0
              /\ \A k \in DOMAIN storage' : storage'[k] # op.value
              /\ \A k \in DOMAIN ops' : ops'[k].op # op
      ]_vars

\* A SyncResponse holding only operations with a bad signature has been
\* merged and followed by the apply pass, which applied the local write
\* that was pending in the map.
C23_Witness ==
    /\ lrecv.msg.type = "SyncResponse"
    /\ AllBad(lrecv.msg.operations)
    /\ lpc = "apply_loop"
    /\ pending = <<>>
    /\ \E id \in LocalOpIds : id \in applied
    /\ OpBad.op_id \notin applied

\* C23 as claimed: while the listener handles a SyncResponse all of whose
\* operations have a bad signature, none of its steps changes the LWW map, the
\* storage content or the applied set.
C23_AsClaimed ==
    [][(/\ lrecv.msg.type = "SyncResponse"
        /\ AllBad(lrecv.msg.operations)
        /\ lpc \in {"merge", "apply_all", "apply_loop"}
        /\ <<lpc, lmsg, pending>>' # <<lpc, lmsg, pending>>)
       => UNCHANGED <<ops, applied, storage>>]_vars

(***************************************************************************)
(* sync.rs: the in-memory sync state across a restart of the node          *)
(***************************************************************************)
\* The node is restarted: SyncStore::new builds an empty LWW map and an empty
\* applied set over the storage that was kept on disk.  Nothing in sync.rs or
\* storage.rs writes an operation to disk, so there is nothing to load back.
Restart ==
    /\ ~restarted
    /\ lpc = "idle"
    /\ dpc = "idle"
    /\ ops' = EmptyMap
    /\ applied' = {}
    /\ prior' = applied
    /\ restarted' = TRUE
    /\ UNCHANGED <<storage, puts, syncSender, dpc, cur, cmdLog, usedIds, lpc, lmsg,
                   wire, pending, redelivery, lwwVars>>
    /\ UNCHANGED <<syncVars, regVars, peerVars, resVars, stopVars, holderVars, logVars,
                   obsVars, callerVars, latVars, loopVars, bootVars, evVars>>

\* Operations of one owner on the register (AppDb, "k"), delivered before
\* and replayed after the restart.
ReplayOps == {OpOld, OpNew}

ReplayResponses == {SyncResponse(LocalNodeId, <<op>>, FALSE, <<>>) : op \in ReplayOps}

NextRestart ==
    \/ (\E op \in ReplayOps : RecvOperation(op)) /\ UNCHANGED <<syncVars, netVars>>
    \/ (\E put_ok \in BOOLEAN : ApplyOp(put_ok)) /\ UNCHANGED <<syncVars, netVars>>
    \/ (\E msg \in ReplayResponses : RecvSyncResponse(msg)) /\ UNCHANGED <<syncVars, netVars>>
    \/ MergeStep /\ UNCHANGED <<syncVars, netVars>>
    \/ ApplyAllStart /\ UNCHANGED <<syncVars, netVars>>
    \/ (\E put_ok \in BOOLEAN : ApplyAllStep(put_ok)) /\ UNCHANGED <<syncVars, netVars>>
    \/ SendFollowUp /\ UNCHANGED <<syncVars, netVars>>
    \/ Restart

SpecRestart == InitNode /\ [][NextRestart]_vars

\* C24 as claimed: after the restart, applying a replayed operation that had
\* been applied before the restart (by the Operation path or by the
\* apply-all pass of a SyncResponse) leaves the storage content unchanged,
\* and the LWW map holds the entry of that operation's CRDT key.
C24_AsClaimed ==
    [][/\ (restarted /\ lpc = "apply_op" /\ lpc' = "idle"
              /\ lmsg.operation.op_id \in prior)
          => (storage' = storage /\ crdt_key(lmsg.operation) \in DOMAIN ops')
       /\ (restarted /\ lpc = "apply_loop" /\ pending # <<>> /\ pending' # pending
              /\ Head(pending).op_id \in prior)
          => (storage' = storage /\ crdt_key(Head(pending)) \in DOMAIN ops')
      ]_vars

(***************************************************************************)
(* discovery.rs, node.rs: latency of a LatencyResponse                     *)
(***************************************************************************)
\* i64 `/`: the quotient truncated toward zero.
TruncDiv(a, b) == IF a >= 0 THEN a \div b ELSE -((-a) \div b)

\* calculate_latency without the clamp at zero.
calculate_latency_Signed(responded_at, request_sent_at) ==
    TruncDiv(responded_at - request_sent_at, 2)

\* LatencyResponse::calculate_latency; the cast to u64 acts on a positive rtt.
calculate_latency(responded_at, request_sent_at) ==
    LET rtt == responded_at - request_sent_at
    IN IF rtt > 0 THEN TruncDiv(rtt, 2) ELSE 0

\* The data topic listener's own computation for a pending request.
InlineLatency(responded_at, sent_at) ==
    IF responded_at > sent_at THEN TruncDiv(responded_at - sent_at, 2) ELSE 0

\* Millisecond instants, negative ones included; every difference of two of
\* them is representable (the subtraction does not overflow).
LatencyInstants == {-536870912, -3, -1, 0, 1, 2, 5, 536870912}

\* A LatencyResponse stamped responded_at answers a request sent at sent_at.
LatencyResponseReceived(responded_at, sent_at) ==
    /\ latCall' = [responded_at |-> responded_at, sent_at |-> sent_at,
                   calculated |-> calculate_latency(responded_at, sent_at),
                   inline |-> InlineLatency(responded_at, sent_at),
                   seq |-> 1 - latCall.seq]
    /\ UNCHANGED <<pingVars, outsideLat>>

NextLatency ==
    \E responded_at \in LatencyInstants, sent_at \in LatencyInstants :
        LatencyResponseReceived(responded_at, sent_at)

SpecLatency == InitMerge /\ [][NextLatency]_vars

\* C25: the latency is never negative; when responded_at > sent_at it is the
\* integer half of the difference (2 * latency <= difference <= 2 * latency
\* + 1), otherwise it is 0; the listener's inline computation gives the same
\* value.
C25_LatencyBound ==
    latCall # NoLatCall =>
        LET d == latCall.responded_at - latCall.sent_at
            c == latCall.calculated
        IN /\ c >= 0
           /\ (d > 0 => 2 * c <= d /\ d <= 2 * c + 1)
           /\ (d <= 0 => c = 0)
           /\ latCall.inline = c

\* A response 3 ms after the request gave 1 ms both ways, and the call before
\* the clamp would have been negative.
C25_Witness ==
    /\ latCall.responded_at = 5
    /\ latCall.sent_at = 2
    /\ latCall.calculated = 1
    /\ latCall.inline = 1

(***************************************************************************)
(* node.rs: the gossip listeners that write to the peer registry           *)
(***************************************************************************)
\* The shared state's counts after a listener read peer_count.
CountsBecome(n) ==
    /\ discovered_peers' = n
    /\ connected_peers' = n

outsideDiscovery ==
    <<lwwVars, nodeVars, syncVars, resVars, stopVars, holderVars, logVars,
      restartVars, callerVars, latVars, loopVars, bootVars, evVars,
      gossip_messages_received, connected_map, lst, consecutive_isolation_count,
      isolatedRun, monCheck>>

\* Discovery topic, DiscoveryMessage::Announce: process_announcement, then the
\* counts; lrecv keeps the announcement that was handed to it.
AnnouncementDelivered(a) ==
    LET r == process_announcement(LocalNodeId, peers, announcement_cache, a, rclock)
    IN /\ RegistryBecomes(r)
       /\ regCall' = RegCall("process_announcement", a.node_id, a.id, a.timestamp, r)
       /\ accepted' = IF r.updated THEN accepted \cup {<<a.id, a.timestamp>>} ELSE accepted
       /\ CountsBecome(peer_count(r.peers))
       /\ lrecv' = [msg |-> a, seq |-> 1 - lrecv.seq]
       /\ UNCHANGED <<rclock, unverifiedMsg, outsideDiscovery>>

\* The desktop format of the peer-discovery topic.
PeerDiscoveryAnnouncement(node_id, connected_peers_list, timestamp, region, signature) ==
    [node_id |-> node_id, connected_peers |-> connected_peers_list, timestamp |-> timestamp,
     region |-> region, signature |-> signature]

\* peer_str.split('@').nth(1)
PeerStrAddress(peer_str) == IF Len(peer_str) >= 3 THEN Some(peer_str[3]) ELSE None

\* The loop over announcement.connected_peers: each listed peer that is not
\* the local node and not in the registry is registered.
RECURSIVE RegisterListed(_, _, _, _, _)
RegisterListed(ps, cache, list, region, now) ==
    IF list = <<>> THEN ps
    ELSE LET node_id_str == PeerStrNodeId(Head(list))
             is_new == node_id_str \notin DOMAIN ps
             next == IF node_id_str = LocalNodeId \/ ~is_new THEN ps
                     ELSE register_peer_from_list(LocalNodeId, ps, cache, node_id_str,
                                                  PeerStrAddress(Head(list)), Some(region), now).peers
         IN RegisterListed(next, cache, Tail(list), region, now)

\* Peer-discovery topic, a message from from_peer that parses as a
\* PeerDiscoveryAnnouncement: its signature field is not looked at.
LegacyAnnouncementReceived(from_peer, m) ==
    /\ from_peer # LocalNodeId
    /\ LET ps == RegisterListed(peers, announcement_cache, m.connected_peers, m.region, rclock)
       IN /\ peers' = ps
          /\ regCall' = RegCall("register_peer_from_list", m.node_id, "", 0,
                                RegResult(ps, announcement_cache, ps # peers, ps # peers))
          /\ CountsBecome(peer_count(ps))
    /\ unverifiedMsg' = [topic |-> "peer_discovery", seq |-> 1 - unverifiedMsg.seq]
    /\ UNCHANGED <<announcement_cache, rclock, accepted, lrecv, outsideDiscovery>>

\* Improved-discovery topic, any payload delivered by from_peer: the payload
\* is not decoded; the deliverer is registered.
ImprovedDiscoveryReceived(from_peer) ==
    /\ from_peer # LocalNodeId
    /\ LET r == register_connected_peer(LocalNodeId, peers, announcement_cache, from_peer, rclock)
       IN /\ RegistryBecomes(r)
          /\ regCall' = RegCall("register_connected_peer", from_peer, "", 0, r)
          /\ CountsBecome(peer_count(r.peers))
    /\ unverifiedMsg' = [topic |-> "improved_discovery", seq |-> 1 - unverifiedMsg.seq]
    /\ UNCHANGED <<rclock, accepted, lrecv, outsideDiscovery>>

\* Desktop-format announcements naming peers never heard of; the signature
\* field holds bytes that verify under no key, or nothing.
LegacyAnnouncements ==
    {PeerDiscoveryAnnouncement("p1", list, 0, "eu", sig) :
        list \in {<<<<"p2", "@", "ip">>, <<LocalNodeId>>>>, <<<<"p3">>>>},
        sig \in {ForgedSignature, EmptySignature}}

\* The announcements of Announcements that carry their sender's signature.
GenuineAnnouncements ==
    {SignedAnnouncement(id, n, ts) : id \in AnnouncementIds, n \in RegNodeIds, ts \in AnnouncementTimestamps}

NextDiscovery ==
    \/ \E a \in {x \in Announcements : x.id = "a1"} : AnnouncementDelivered(a)
    \/ \E m \in LegacyAnnouncements : LegacyAnnouncementReceived("p1", m)
    \/ \E from_peer \in {"p1", "p2"} : ImprovedDiscoveryReceived(from_peer)
    \/ \E t \in {1} : Tick(t)

SpecDiscovery == InitRegistry /\ [][NextDiscovery]_vars

\* C26: a process_announcement call returns false and leaves the peers map
\* and the dedup cache unchanged when the announcement names the local node,
\* when the cache holds its id with a timestamp >= its own, or when its
\* signature does not verify; otherwise the cache gets (id, timestamp), the
\* peer entry is inserted or replaced with last_seen set to the current time
\* (no other entry changes), and the call returns true iff the node_id had
\* no entry before.
C26_ProcessAnnouncement ==
    [][lrecv'.seq # lrecv.seq =>
        LET a == lrecv'.msg
            rejected == \/ a.node_id = LocalNodeId
                        \/ (a.id \in DOMAIN announcement_cache
                              /\ announcement_cache[a.id] >= a.timestamp)
                        \/ a \notin GenuineAnnouncements
        IN IF rejected
           THEN /\ regCall'.ret = FALSE
                /\ UNCHANGED <<peers, announcement_cache>>
           ELSE /\ DOMAIN announcement_cache' = DOMAIN announcement_cache \cup {a.id}
                /\ announcement_cache'[a.id] = a.timestamp
                /\ \A i \in DOMAIN announcement_cache \ {a.id} :
                       announcement_cache'[i] = announcement_cache[i]
                /\ DOMAIN peers' = DOMAIN peers \cup {a.node_id}
                /\ peers'[a.node_id].last_seen = Some(rclock)
                /\ peers'[a.node_id].public_key = a.public_key
                /\ \A n \in DOMAIN peers \ {a.node_id} : peers'[n] = peers[n]
                /\ regCall'.ret = (a.node_id \notin DOMAIN peers)
      ]_vars

\* An announcement with a later timestamp replaced the entry of a peer that
\* was already known: the cache holds the later timestamp, last_seen is the
\* time of the call, and the call returned false.
C26_Witness ==
    /\ lrecv.seq = 1
    /\ lrecv.msg \in GenuineAnnouncements
    /\ lrecv.msg.node_id = "p1"
    /\ regCall.fn = "process_announcement"
    /\ regCall.updated
    /\ regCall.ret = FALSE
    /\ rclock = 1
    /\ peers["p1"].last_seen = Some(1)
    /\ announcement_cache[lrecv.msg.id] = UtcMillis(2)

\* C27 as claimed: a received gossip message whose signature was not verified
\* (a desktop-format announcement on the peer-discovery topic, any payload on
\* the improved-discovery topic) creates no registry entry.
C27_AsClaimed ==
    [][unverifiedMsg'.seq # unverifiedMsg.seq => DOMAIN peers' \subseteq DOMAIN peers]_vars

(***************************************************************************)
(* network_resilience.rs: the reconnect loop's backoff gate                *)
(***************************************************************************)
\* The reconnect loop comes to peer while the peer is in backoff: continue,
\* before allow_connection_attempt is called.
LoopBackoffSkip(peer) ==
    /\ callers["loop"].pc = "idle"
    /\ InBackoff(peer_backoff, peer, rclock)
    /\ visit' = [peer |-> peer, outcome |-> "backoff_skip", seq |-> 1 - visit.seq]
    /\ UNCHANGED <<coreVars, holderVars, logVars, obsVars, restartVars, callerVars, latVars, bootVars, evVars>>

\* Time passes, within a backoff delay as well as to its end.
ReconnectInstants == {1, 2, 3, 4}

NextReconnect ==
    \/ \E peer \in BootstrapPeers : LoopAttempt(peer)
    \/ \E peer \in BootstrapPeers : LoopBackoffSkip(peer)
    \/ OtherAttempt
    \/ \E c \in Callers : Revert(c)
    \/ \E ok \in BOOLEAN : LoopResult(ok)
    \/ ResetCycle
    \/ \E t \in ReconnectInstants : Tick(t)

SpecReconnect == InitResilience /\ [][NextReconnect]_vars

\* C28: whenever the reconnect loop is at (or has just entered) the connect
\* to a peer, the current time is not before that peer's next_allowed; a
\* visit that skips the peer because of its backoff happens before
\* next_allowed and leaves the cycle's counter and the number of granted
\* attempts unchanged; and while the loop is refused by the budget (its
\* increment is being reverted) the backoff table does not change.
C28_BackoffGate ==
    [][/\ callers'["loop"].pc = "connect" =>
              (callers'["loop"].peer \in DOMAIN peer_backoff'
                  => rclock' >= peer_backoff'[callers'["loop"].peer][2])
       /\ visit'.seq # visit.seq =>
              /\ visit'.outcome = "backoff_skip"
              /\ visit'.peer \in DOMAIN peer_backoff
              /\ rclock < peer_backoff[visit'.peer][2]
              /\ UNCHANGED <<connection_attempts, granted, peer_backoff, callers>>
       /\ (callers["loop"].pc = "revert" \/ callers'["loop"].pc = "revert") =>
              UNCHANGED peer_backoff
      ]_vars

\* After a failed connect the loop came back to the peer during the delay
\* and skipped it, with the budget as it was.
C28_Witness ==
    /\ visit.seq = 1
    /\ visit.outcome = "backoff_skip"
    /\ attempt.seq = 1
    /\ ~attempt.ok
    /\ visit.peer \in DOMAIN peer_backoff
    /\ rclock < peer_backoff[visit.peer][2]
    /\ granted = 1
    /\ connection_attempts = 1

(***************************************************************************)
(* node.rs: start, the connect to each bootstrap peer with retries         *)
(***************************************************************************)
MAX_RETRIES == 5

INITIAL_DELAY_MS == 1000

MAX_DELAY_MS == 30000

\* Longest list of bootstrap peer strings.
MaxBootPeers == 2

\* A bootstrap peer string whose address parses, and one whose does not.
BootPeerStrings == {[id |-> "b1", parseable |-> TRUE], [id |-> "b2", parseable |-> FALSE]}

\* Outcomes of a connect under tokio::time::timeout: Ok(Ok(conn)),
\* Ok(Err(e)), Err(elapsed).
ConnectResults == {"ok", "err", "timeout"}

BootAt(list) ==
    [pc |-> "next_peer", list |-> list, peer |-> "", attempt |-> 0, delay_ms |-> 0,
     connected |-> FALSE, direct |-> "none", relay_url |-> FALSE, relay_tried |-> FALSE,
     waits |-> <<>>]

\* for peer_str in &all_bootstrap_strings: the retry loop starts for a peer
\* whose address parses; a peer whose address does not parse is passed over.
BootNextPeer ==
    /\ boot.pc = "next_peer"
    /\ IF boot.list = <<>>
       THEN boot' = [boot EXCEPT !.pc = "started"]
       ELSE IF Head(boot.list).parseable
            THEN boot' = [BootAt(Tail(boot.list)) EXCEPT
                             !.pc = "direct", !.peer = Head(boot.list).id,
                             !.attempt = 1, !.delay_ms = INITIAL_DELAY_MS]
            ELSE boot' = [boot EXCEPT !.list = Tail(@)]
    /\ UNCHANGED outsideBoot

\* The direct connect of one round ends with result; relay_url tells whether
\* the endpoint has a relay URL at that time.  Only the Ok(Err(e)) arm
\* goes on to the relay-assisted connect.
BootDirect(result, relay_url) ==
    /\ boot.pc = "direct"
    /\ boot' = [boot EXCEPT
                   !.direct = result, !.relay_url = relay_url, !.relay_tried = FALSE,
                   !.connected = (result = "ok"),
                   !.pc = IF result = "ok" THEN "next_peer"
                          ELSE IF result = "err" /\ relay_url THEN "relay"
                          ELSE "wait"]
    /\ UNCHANGED outsideBoot

\* The relay-assisted connect ends with result.
BootRelay(result) ==
    /\ boot.pc = "relay"
    /\ boot' = [boot EXCEPT
                   !.relay_tried = TRUE,
                   !.connected = (result = "ok"),
                   !.pc = IF result = "ok" THEN "next_peer" ELSE "wait"]
    /\ UNCHANGED outsideBoot

\* The end of a failed round: sleep delay_ms and double it unless this was
\* the last round; then the next round, or the loop is over.
BootWait ==
    /\ boot.pc = "wait"
    /\ IF boot.attempt < MAX_RETRIES
       THEN boot' = [boot EXCEPT
                        !.waits = Append(@, boot.delay_ms),
                        !.delay_ms = Min(boot.delay_ms * 2, MAX_DELAY_MS),
                        !.attempt = @ + 1,
                        !.pc = "direct"]
       ELSE boot' = [boot EXCEPT !.pc = "next_peer"]
    /\ UNCHANGED outsideBoot

InitBoot ==
    /\ InitLWWIdle /\ InitNodeIdle /\ InitSyncIdle
    /\ InitRegIdle /\ InitPeersIdle /\ InitResIdle /\ InitStopIdle
    /\ InitHolderIdle /\ InitLogIdle /\ InitObsIdle /\ InitEvIdle
    /\ boot \in {BootAt(l) : l \in SeqsUpTo(BootPeerStrings, MaxBootPeers)}

NextBoot ==
    \/ BootNextPeer
    \/ \E result \in ConnectResults, relay_url \in BOOLEAN : BootDirect(result, relay_url)
    \/ \E result \in ConnectResults : BootRelay(result)
    \/ BootWait

SpecBoot == InitBoot /\ [][NextBoot]_vars

\* C29 as claimed: at most 5 rounds for a peer, none after a success; a round
\* whose direct connect failed (error or timeout) while the endpoint had a
\* relay URL has tried the relay-assisted connect when it ends; the waits
\* between rounds are 1 s, 2 s, 4 s, 8 s and none follows the last round.
C29_AsClaimed ==
    /\ boot.attempt <= MAX_RETRIES
    /\ (boot.connected => boot.pc \in {"next_peer", "started"})
    /\ (boot.pc = "wait" /\ boot.direct \in {"err", "timeout"} /\ boot.relay_url)
          => boot.relay_tried
    /\ Len(boot.waits) <= MAX_RETRIES - 1
    /\ \A i \in 1..Len(boot.waits) : boot.waits[i] = 1000 * 2^(i - 1)

(***************************************************************************)
(* node.rs: the sync topic listener and the event channel                  *)
(***************************************************************************)
\* Gossip events the subscription holds for the listener at most.
MaxInbox == 2

\* Events already in the channel when the run starts, sent by the listeners
\* for earlier messages and not taken by the host.
EarlierEvents == EVENT_CHANNEL_CAPACITY - 2

\* Bytes that are no SyncMessage.
Unparseable == [type |-> "unparseable"]

\* What the sync topic delivers: bytes that do not parse, an Operation that
\* is rejected, a valid Operation.
SyncDeliveries == {Unparseable, Operation(OpBad), Operation(OpOld)}

outsideListener ==
    <<lwwVars, syncVars, regVars, peerVars, resVars, stopVars, holderVars, logVars,
      obsVars, restartVars, callerVars, latVars, loopVars, bootVars>>

nodeRest == <<syncSender, dpc, cur, cmdLog, usedIds, wire, pending, redelivery>>

\* The overlay delivers a message on the sync topic.
GossipDelivered(msg) ==
    /\ Len(inbox) < MaxInbox
    /\ inbox' = Append(inbox, msg)
    /\ UNCHANGED <<nodeVars, event_queue, outsideListener>>

\* receiver.next(): the listener takes the next message.  Bytes that do not
\* parse are logged.  For an Operation, handle_sync_message calls
\* add_operation; apply_to_storage follows if it was accepted; the event is
\* sent afterwards in either case.
SyncTake ==
    /\ lpc = "idle"
    /\ inbox # <<>>
    /\ inbox' = Tail(inbox)
    /\ IF Head(inbox) = Unparseable
       THEN UNCHANGED <<ops, lpc, lmsg>>
       ELSE /\ ops' = add_operation_map(ops, Head(inbox).operation)
            /\ lmsg' = Head(inbox)
            /\ lpc' = IF add_operation_ret(ops, Head(inbox).operation) THEN "apply_op" ELSE "event"
    /\ UNCHANGED <<applied, storage, puts, nodeRest, event_queue, outsideListener>>

\* apply_to_storage for the accepted operation; an error is logged.
SyncApply(put_ok) ==
    /\ lpc = "apply_op"
    /\ SetStoreState(apply_to_storage(StoreState, lmsg.operation,
                                      IF put_ok THEN {} ELSE {lmsg.operation.op_id}))
    /\ lpc' = "event"
    /\ UNCHANGED <<ops, lmsg, nodeRest, evVars, outsideListener>>

\* event_tx.send(NodeEvent::SyncReceived).await: completes when the channel
\* has room; the receiver is held by the node, so the channel is not closed.
SyncSendEvent ==
    /\ lpc = "event"
    /\ event_queue < EVENT_CHANNEL_CAPACITY
    /\ event_queue' = event_queue + 1
    /\ lpc' = "idle"
    /\ lmsg' = NoMessage
    /\ UNCHANGED <<ops, applied, storage, puts, nodeRest, inbox, outsideListener>>

\* The host takes an event from the stream.
HostDrain ==
    /\ event_queue > 0
    /\ event_queue' = event_queue - 1
    /\ UNCHANGED <<nodeVars, inbox, outsideListener>>

InitListen ==
    /\ InitLWWIdle /\ InitNodeIdle /\ InitSyncIdle
    /\ InitRegIdle /\ InitPeersIdle /\ InitResIdle /\ InitStopIdle
    /\ InitHolderIdle /\ InitLogIdle /\ InitObsIdle /\ InitBootIdle
    /\ event_queue \in {0, EarlierEvents}
    /\ inbox = <<>>

ListenerStep == SyncTake \/ SyncApply(TRUE) \/ SyncSendEvent

NextListen ==
    \/ \E msg \in SyncDeliveries : GossipDelivered(msg)
    \/ SyncTake
    \/ SyncApply(TRUE)
    \/ SyncSendEvent
    \/ HostDrain

SpecListen == InitListen /\ [][NextListen]_vars

\* The listener task is scheduled whenever it can take a step; the host is
\* free to drain the event stream or not.
SpecListenFair == SpecListen /\ WF_vars(ListenerStep)

InInbox(msg) == \E i \in 1..Len(inbox) : inbox[i] = msg

\* C30 as claimed: whatever was received before and whether or not the host
\* drains the event stream, a valid Operation delivered on the sync topic is
\* eventually merged and applied.
C30_AsClaimed == InInbox(Operation(OpOld)) ~> (OpOld.op_id \in applied)

(***************************************************************************)
(* node.rs: CyberflyNode::stop and the Stop handler beside the listeners   *)
(***************************************************************************)
\* CyberflyNode::stop: command_tx.send(NodeCommand::Stop(tx)).await; the
\* caller then awaits the answer on the oneshot channel.
stop_send == SendCommand(StopCommand)

\* The command loop takes Stop and runs its handler to the break.
DispatcherStep ==
    \/ \E flush_ok \in BOOLEAN : StopFlush(flush_ok)
    \/ StopEmit
    \/ StopShutdown
    \/ StopRespond

NextHalt ==
    \/ stop_send
    \/ \E flush_ok \in BOOLEAN : StopFlush(flush_ok)
    \/ StopEmit
    \/ StopShutdown
    \/ StopRespond
    \/ \E msg \in SyncDeliveries : GossipDelivered(msg)
    \/ SyncTake
    \/ SyncApply(TRUE)
    \/ SyncSendEvent
    \/ HostDrain

SpecHalt == InitListen /\ [][NextHalt]_vars

\* The dispatcher and the listener task are scheduled whenever they can take
\* a step, and the bounded channel serves waiting senders in the order they
\* asked, so a send of the dispatcher that finds room again and again
\* completes; the host is free to drain the event stream or not.
SpecHaltFair == SpecHalt /\ SF_vars(DispatcherStep) /\ WF_vars(ListenerStep)

StopEnqueued == \E i \in 1..Len(command_rx) : command_rx[i] = StopCommand

\* The oneshot answer was sent, so rx.await in stop() completes.
StopReturned == dpc = "stopped" /\ cmdLog # <<>> /\ cmdLog[Len(cmdLog)] = "respond"

\* C31 as claimed: once Stop is in the command channel, the dispatcher
\* eventually flushes, answers the caller and leaves the loop and stop()
\* returns, whatever was emitted before and whether or not the host drains
\* the event stream.
C31_AsClaimed == StopEnqueued ~> StopReturned

(***************************************************************************)
(* sync.rs / node.rs: one SyncResponse merged beside a StoreData command   *)
(***************************************************************************)
\* Responses with a full operations vector for the register (AppDb, "k").
WholeResponses ==
    {SyncResponse(LocalNodeId, o, FALSE, <<>>) :
        o \in SeqsUpTo({OpOld, OpNew}, MaxResponseOps) \ SeqsUpTo({OpOld, OpNew}, MaxResponseOps - 1)}

\* The listener handles one SyncResponse while the dispatcher handles one
\* StoreData command; the two tasks share the SyncStore.
NextInterleave ==
    \/ /\ usedIds = {}
       /\ \E w \in LocalWrites, id \in LocalOpIds, now \in Timestamps, put_ok \in BOOLEAN :
             StoreData(w.db_name, w.key, w.value, w.pk, w.signature, id, now, put_ok)
       /\ UNCHANGED <<syncVars, netVars>>
    \/ StoreDataAdd /\ UNCHANGED <<syncVars, netVars>>
    \/ StoreDataBroadcast /\ UNCHANGED <<syncVars, netVars>>
    \/ \E msg \in WholeResponses :
          lrecv.seq = 0 /\ RecvSyncResponse(msg) /\ Received(msg) /\ UNCHANGED outsideListen
    \/ MergeStep /\ UNCHANGED <<syncVars, netVars>>
    \/ ApplyAllStart /\ UNCHANGED <<syncVars, netVars>>
    \/ (\E put_ok \in BOOLEAN : ApplyAllStep(put_ok)) /\ UNCHANGED <<syncVars, netVars>>
    \/ SendFollowUp /\ UNCHANGED <<syncVars, netVars>>

SpecInterleave == InitNode /\ [][NextInterleave]_vars

\* merge_operations has merged a part of the vector, the rest is to come.
MidMerge ==
    /\ lpc = "merge"
    /\ Len(lmsg.operations) < Len(lrecv.msg.operations)

\* The response was received and merge_operations has returned.
Merged == lrecv.seq = 1 /\ lpc # "merge"

\* add_operation_unverified of a StoreData command has taken effect.
LocalAdded == usedIds # {} /\ dpc # "add"

\* The map after the whole response, then the local operation.
ResponseFirst ==
    LET m == merge_operations_map(EmptyMap, lrecv.msg.operations)
    IN IF LocalAdded THEN add_operation_unverified_map(m, cur) ELSE m

\* The map after the local operation, then the whole response.
LocalFirst ==
    merge_operations_map(IF LocalAdded THEN add_operation_unverified_map(EmptyMap, cur) ELSE EmptyMap,
                         lrecv.msg.operations)

\* C32 as claimed: between the merges of two operations of one response no
\* other writer changes the LWW map.
C32_AsClaimed == [][(MidMerge /\ ops' # ops) => lmsg' # lmsg]_vars

\* C32: each add_operation is atomic, the merge of a response is not: the
\* add_operation_unverified of a StoreData command may take effect between
\* two merges; once the response is merged the map is the one both serial
\* orders (response first, local operation first) produce.
C32_MergeSerializable == Merged => (ops = ResponseFirst /\ ops = LocalFirst)

\* A response of two operations is merged and the local operation, added
\* meanwhile, lost against the newer one of the response.
C32_Witness ==
    /\ Merged
    /\ LocalAdded
    /\ lrecv.msg.operations = <<OpOld, OpNew>>
    /\ cur.timestamp = 1
    /\ ops[crdt_key(OpNew)].op = OpNew

(***************************************************************************)
(* sync.rs: apply_all_to_storage called on a store with pending operations *)
(***************************************************************************)
\* What the sync topic delivers before the call: three CRDT keys, one of
\* them written by a Hash operation without a field.
ApplyAllOps == {OpOld, OpNew, OpField, OpHashNoField}

ApplyAllSeq(l) == IF l.fn = "apply_all_to_storage" THEN l.seq ELSE 0

\* apply_all_to_storage(), with the call recorded; failing: the op_ids whose
\* Storage::put fails during the call.
CallApplyAll(failing) ==
    /\ lpc = "idle"
    /\ \E order \in IterationOrders(ops) :
          /\ SetStoreState(apply_all_to_storage(StoreState, order, failing).st)
          /\ last' = [fn |-> "apply_all_to_storage", failing |-> failing, before |-> StoreState,
                      ret |-> apply_all_to_storage(StoreState, order, failing).applied,
                      seq |-> 1 - ApplyAllSeq(last)]
    /\ UNCHANGED <<ops, syncSender, dpc, cur, cmdLog, usedIds, lpc, lmsg, wire, pending, redelivery,
                   stores, opSet, delivered, syncVars, netVars>>

NextApplyAll ==
    \/ \E op \in ApplyAllOps : RecvOperation(op) /\ UNCHANGED <<syncVars, netVars>>
    \/ (\E put_ok \in BOOLEAN : ApplyOp(put_ok)) /\ UNCHANGED <<syncVars, netVars>>
    \/ \E failing \in SUBSET {op.op_id : op \in Candidates(ops, <<>>)} : CallApplyAll(failing)

SpecApplyAll == InitMerge /\ [][NextApplyAll]_vars

\* The operations of the map the call finds not applied, and those of them
\* that cannot be applied.
ToApply(before) == {op \in Candidates(ops, <<>>) : op.op_id \notin before.applied}

CannotApply(before, failing) ==
    {op \in ToApply(before) : (ToLower(op.store_type) = "hash" /\ op.field = <<>>) \/ op.op_id \in failing}

\* C33: in a call of apply_all_to_storage an operation that cannot be applied
\* (Hash without a field, failing put) is not marked applied and is not
\* written; every other operation of the map that was not applied is written
\* and marked applied in the same call; nothing else is marked or written;
\* the count returned is the number of operations the call applied.
C33_ErrorIsolation ==
    [][(ApplyAllSeq(last') # ApplyAllSeq(last)) =>
          LET before == last'.before
              bad == CannotApply(before, last'.failing)
              good == ToApply(before) \ bad
          IN /\ \A op \in bad :
                    /\ op.op_id \notin applied'
                    /\ PutCount(puts', op.op_id) = PutCount(before.puts, op.op_id)
             /\ \A op \in good :
                    /\ op.op_id \in applied'
                    /\ PutCount(puts', op.op_id) = Min(PutCount(before.puts, op.op_id) + 1, MaxPutCount)
                    /\ StorageKey(op) \in DOMAIN storage'
             /\ applied' = before.applied \cup {op.op_id : op \in good}
             /\ \A k \in DOMAIN storage' :
                    (\A op \in good : StorageKey(op) # k) =>
                        (k \in DOMAIN before.storage /\ storage'[k] = before.storage[k])
             /\ last'.ret = Cardinality(good)
             /\ ops' = ops]_vars

\* A call found three operations not applied: the Hash operation without a
\* field and one whose put failed stayed unapplied, the third was applied.
C33_Witness ==
    /\ last.fn = "apply_all_to_storage"
    /\ last.before.applied = {}
    /\ Cardinality(DOMAIN ops) = 3
    /\ Cardinality(last.failing) = 1
    /\ last.ret = 1
    /\ Cardinality(applied) = 1
    /\ OpHashNoField.op_id \notin applied

(***************************************************************************)
(* discovery.rs: process_peer_list called on a registry with known peers   *)
(***************************************************************************)
\* Longest peers vector of a list.
MaxListed == 2

\* Entries of a list: a known or unknown node with an address, the local
\* node with an address, a bare node id, an entry that starts with '@'.
ListedEntries == {<<"p1", "@", "ip">>, <<LocalNodeId, "@", "ip">>, <<"p2">>, <<"@", "ip">>}

\* Lists that carry their sender's signature.
GenuinePeerLists ==
    {SignedPeerList(n, list) : n \in {LocalNodeId, "p1"}, list \in SeqsUpTo(ListedEntries, MaxListed)}

\* ... and a list whose signature bytes verify under no key, or are missing.
ReceivedPeerLists ==
    GenuinePeerLists
    \cup {PeerListAnnouncement("p1", <<"A">>, <<<<"p1", "@", "ip">>, <<"p2">>>>, 0, sig) :
             sig \in {ForgedSignature, EmptySignature}}

\* process_peer_list(&list), with the call and the list recorded.
CallProcessPeerList(l) ==
    LET r == process_peer_list(LocalNodeId, peers, announcement_cache, l)
    IN /\ RegistryBecomes(r)
       /\ regCall' = RegCall("process_peer_list", l.from_node_id, "", 0, r)
       /\ lrecv' = [msg |-> l, seq |-> 1 - lrecv.seq]
       /\ UNCHANGED <<rclock, accepted, unverifiedMsg, discovered_peers, connected_peers, outsideDiscovery>>

NextPeerList ==
    \/ \E node_id \in {"p1", "p2"} : RegisterConnectedPeer(node_id)
    \/ \E node_id \in {"p1", "p2"} : UnregisterPeer(node_id)
    \/ \E l \in ReceivedPeerLists : CallProcessPeerList(l)

SpecPeerList == InitRegistry /\ [][NextPeerList]_vars

\* The text of a peer string before its first '@' (all of it without one).
TextBeforeAt(peer_str) ==
    LET at == {i \in 1..Len(peer_str) : peer_str[i] = "@"}
        first == IF at = {} THEN Len(peer_str) + 1 ELSE CHOOSE i \in at : \A j \in at : i <= j
    IN IF first = 1 THEN "" ELSE peer_str[1]

\* The positions of list whose entry names neither the local node nor a
\* known peer.
UnknownAt(list, ps) ==
    {i \in 1..Len(list) : TextBeforeAt(list[i]) # LocalNodeId /\ TextBeforeAt(list[i]) \notin DOMAIN ps}

\* ret holds the entries of list at the positions of S, in list order.
IsSelection(ret, list, S) ==
    /\ Len(ret) = Cardinality(S)
    /\ \A i \in 1..Len(ret) :
          \E j \in S : ret[i] = list[j] /\ Cardinality({k \in S : k < j}) = i - 1

\* C34: process_peer_list leaves the registry as it is; it returns an empty
\* list for a list of the local node or one whose signature does not verify,
\* and otherwise, in list order, exactly the entries whose text before '@' is
\* neither the local node id nor a key of the peers map.
C34_ProcessPeerList ==
    [][lrecv'.seq # lrecv.seq =>
        LET l == lrecv'.msg
        IN /\ UNCHANGED <<peers, announcement_cache>>
           /\ IF l.from_node_id = LocalNodeId \/ l \notin GenuinePeerLists
              THEN regCall'.ret = <<>>
              ELSE IsSelection(regCall'.ret, l.peers, UnknownAt(l.peers, peers))
      ]_vars

\* A verified list of p1 naming p1 (known) and p2 (unknown): p2 is returned.
C34_Witness ==
    /\ lrecv.seq = 1
    /\ lrecv.msg \in GenuinePeerLists
    /\ lrecv.msg.peers = <<<<"p1", "@", "ip">>, <<"p2">>>>
    /\ "p1" \in DOMAIN peers
    /\ regCall.fn = "process_peer_list"
    /\ regCall.ret = <<<<"p2">>>>

(***************************************************************************)
(* node.rs / sync.rs: the storage beside the LWW map                       *)
(***************************************************************************)
\* store_data calls that carry the client's signature.
SignedWrites == {w \in LocalWrites : w.signature # EmptySignature}

\* The clock of the local node when it handles StoreData: within the range
\* of the inbound timestamps, or after all of them.
LocalInstants == Timestamps \cup {3}

\* Local writes and inbound valid String operations on one register; every
\* put succeeds.
NextWinner ==
    \/ /\ \E w \in SignedWrites, id \in LocalOpIds, now \in LocalInstants :
             StoreData(w.db_name, w.key, w.value, w.pk, w.signature, id, now, TRUE)
       /\ UNCHANGED <<syncVars, netVars>>
    \/ StoreDataAdd /\ UNCHANGED <<syncVars, netVars>>
    \/ StoreDataBroadcast /\ UNCHANGED <<syncVars, netVars>>
    \/ \E op \in {OpOld, OpNew} : RecvOperation(op) /\ UNCHANGED <<syncVars, netVars>>
    \/ ApplyOp(TRUE) /\ UNCHANGED <<syncVars, netVars>>
    \/ \E msg \in WholeResponses : RecvSyncResponse(msg) /\ UNCHANGED <<syncVars, netVars>>
    \/ MergeStep /\ UNCHANGED <<syncVars, netVars>>
    \/ ApplyAllStart /\ UNCHANGED <<syncVars, netVars>>
    \/ ApplyAllStep(TRUE) /\ UNCHANGED <<syncVars, netVars>>
    \/ SendFollowUp /\ UNCHANGED <<syncVars, netVars>>

SpecWinner == InitNode /\ [][NextWinner]_vars

\* No command and no message is being handled.
FullyHandled == dpc = "idle" /\ lpc = "idle"

\* C35 as claimed: when every command and message has been fully handled,
\* the value stored under (db_name, key) is, for every CRDT key of the LWW
\* map, the value of the operation the map retains for it.
C35_AsClaimed ==
    FullyHandled =>
        \A k \in DOMAIN ops :
            /\ <<ops[k].op.db_name, <<ops[k].op.key>>>> \in DOMAIN storage
            /\ storage[<<ops[k].op.db_name, <<ops[k].op.key>>>>] = ops[k].op.value

(***************************************************************************)
(* node.rs: latency requests and the responses that answer them            *)
(***************************************************************************)
\* Number of SendLatencyRequest commands.
MaxRequests == 2

\* pending_latency.write().get(&request_id): the entry stays in the map.
TakePending_Peek(request_id) == pending_latency

\* pending_latency.write().remove(&request_id): the map afterwards.
TakePending(request_id) == MapRemove(pending_latency, request_id)

outsidePing ==
    <<lwwVars, syncVars, resVars, stopVars, holderVars, logVars, restartVars, callerVars, loopVars, bootVars,
      peerVars, rclock, accepted, unverifiedMsg, latCall, inbox>>

\* NodeCommand::SendLatencyRequest, first the counter ...
SendLatencyRequest ==
    /\ dpc = "idle"
    /\ latency_requests_sent < MaxRequests
    /\ latency_requests_sent' = latency_requests_sent + 1
    /\ dpc' = "latency_insert"
    /\ UNCHANGED <<ops, applied, storage, puts, syncSender, cur, cmdLog, usedIds, lpc, lmsg, wire, pending, redelivery,
                   latency_responses_received, pending_latency, peers, announcement_cache, regCall,
                   lrecv, event_queue, outsidePing>>

\* ... then LatencyRequest::new with a fresh request_id (the n-th request
\* gets n) and sent_at = now, the insert into the pending map, the broadcast
\* and the answer to the caller.
SendLatencyRequestInsert(now) ==
    /\ dpc = "latency_insert"
    /\ pending_latency' = MapInsert(pending_latency, latency_requests_sent, now)
    /\ dpc' = "idle"
    /\ UNCHANGED <<ops, applied, storage, puts, syncSender, cur, cmdLog, usedIds, lpc, lmsg, wire, pending, redelivery,
                   latency_requests_sent, latency_responses_received, peers, announcement_cache, regCall,
                   lrecv, event_queue, outsidePing>>

LatencyResponseMessage(request_id, from_node_id, responded_at) ==
    [type |-> "LatencyResponse", request_id |-> request_id, from_node_id |-> from_node_id,
     responded_at |-> responded_at]

\* Data topic listener, GossipMessage::LatencyResponse: the pending entry is
\* removed; if there was one, the counter, update_latency and the
\* LatencyMeasured event follow.
LatencyResponseHandled(msg) ==
    /\ lrecv' = [msg |-> msg, seq |-> 1 - lrecv.seq]
    /\ pending_latency' = TakePending(msg.request_id)
    /\ IF msg.request_id \in DOMAIN pending_latency
       THEN /\ event_queue < EVENT_CHANNEL_CAPACITY
            /\ latency_responses_received' = latency_responses_received + 1
            /\ RegistryBecomes(update_latency(peers, announcement_cache, msg.from_node_id,
                                              InlineLatency(msg.responded_at, pending_latency[msg.request_id])))
            /\ event_queue' = event_queue + 1
       ELSE UNCHANGED <<latency_responses_received, peers, announcement_cache, event_queue>>
    /\ UNCHANGED <<nodeVars, latency_requests_sent, regCall, outsidePing>>

\* Responses to the requests made, and to one never made.
LatencyResponses ==
    {LatencyResponseMessage(id, n, t) : id \in 1..(MaxRequests + 1), n \in {"p1", "p2"}, t \in {0, 4}}

NextPing ==
    \/ SendLatencyRequest
    \/ \E now \in {1, 2} : SendLatencyRequestInsert(now)
    \/ \E msg \in LatencyResponses : LatencyResponseHandled(msg)
    \/ RegisterConnectedPeer("p1")

SpecPing == InitRegistry /\ [][NextPing]_vars

\* C36: a LatencyResponse changes the counter, the peer's latency and the
\* event channel only if its request_id is pending, and then the entry is
\* gone afterwards; the responses counted plus the requests still pending
\* never exceed the requests sent, so no request is measured twice and
\* latency_responses_received <= latency_requests_sent.
C36_LatencyPairing ==
    /\ [](latency_responses_received + Cardinality(DOMAIN pending_latency) <= latency_requests_sent)
    /\ [][lrecv'.seq # lrecv.seq =>
            LET id == lrecv'.msg.request_id
            IN /\ id \notin DOMAIN pending_latency'
               /\ \A other \in DOMAIN pending_latency \ {id} :
                      other \in DOMAIN pending_latency' /\ pending_latency'[other] = pending_latency[other]
               /\ IF id \in DOMAIN pending_latency
                  THEN /\ latency_responses_received' = latency_responses_received + 1
                       /\ event_queue' = event_queue + 1
                       /\ \A n \in DOMAIN peers' :
                              peers'[n].latency_ms =
                                  IF n = lrecv'.msg.from_node_id
                                  THEN Some(IF lrecv'.msg.responded_at > pending_latency[id]
                                            THEN (lrecv'.msg.responded_at - pending_latency[id]) \div 2
                                            ELSE 0)
                                  ELSE peers[n].latency_ms
                  ELSE UNCHANGED <<latency_responses_received, peers, event_queue>>
       ]_vars

\* Two requests were sent; the first was answered by p1 and measured, the
\* second still waits.
C36_Witness ==
    /\ latency_requests_sent = 2
    /\ latency_responses_received = 1
    /\ DOMAIN pending_latency = {2}
    /\ lrecv.msg = LatencyResponseMessage(1, "p1", 4)
    /\ "p1" \in DOMAIN peers
    /\ peers["p1"].latency_ms = Some(1)
    /\ event_queue = 1

(***************************************************************************)
(* api.rs: stop_node while another API call holds the node                 *)
(***************************************************************************)
\* C37 as claimed: whenever stop_node takes a running node out of the holder
\* and returns, the Stop arm of that node's command loop has run (storage
\* flushed, router shut down, loop left), also when an API call that got the
\* node from get_node() still holds a reference to it.
C37_AsClaimed ==
    [][(holder # None /\ holder' = None /\ nodes[holder[1]].dispatcher = "running") =>
          nodes'[holder[1]] = StoppedNode(nodes[holder[1]])]_vars

(***************************************************************************)
(* network_resilience.rs: the budget counter across a reset                *)
(***************************************************************************)
\* No allow_connection_attempt call is between its fetch_add and its
\* fetch_sub.
NoCallInProgress == \A c \in Callers : callers[c].pc # "revert"

\* C38 as claimed: however the reset interleaves with the calls, the counter
\* never wraps below zero, and it is within 0..8 whenever no call is in
\* progress.
C38_AsClaimed ==
    /\ connection_attempts >= 0
    /\ NoCallInProgress => connection_attempts \in 0..max_connections_per_cycle

(***************************************************************************)
(* node.rs: store_data and get_data through the command channel            *)
(***************************************************************************)
\* recv() handing out the newest command.
Recv_Newest(queue) == [cmd |-> queue[Len(queue)], rest |-> SubSeq(queue, 1, Len(queue) - 1)]

\* command_rx.recv(): the oldest command of the channel, and the channel
\* without it.
Recv(queue) == [cmd |-> Head(queue), rest |-> Tail(queue)]

\* Stores a caller may enqueue.
MaxStores == 2

GetDataCommand(db_name, key, after) ==
    [type |-> "GetData", db_name |-> db_name, key |-> key, after |-> after]

outsideCaller ==
    <<lwwVars, syncVars, regVars, peerVars, resVars, holderVars, logVars, obsVars, restartVars,
      latVars, loopVars, bootVars, evVars>>

\* store_data: the command is sent; the call returns without an answer.
\* The n-th store enqueued is numbered n.
store_data(w) ==
    /\ Len(command_rx) < MaxQueue
    /\ callerView.enqueued < MaxStores
    /\ command_rx' = Append(command_rx, [type |-> "StoreData", w |-> w, n |-> callerView.enqueued + 1])
    /\ callerView' = [callerView EXCEPT !.enqueued = @ + 1]
    /\ UNCHANGED <<nodeVars, outsideCaller>>

\* get_data for the register, sent after the store numbered `after` was.
get_data(after) ==
    /\ Len(command_rx) < MaxQueue
    /\ after \in 1..callerView.enqueued
    /\ command_rx' = Append(command_rx, GetDataCommand(AppDb, "k", after))
    /\ UNCHANGED <<nodeVars, callerVars, outsideCaller>>

\* The command loop takes a StoreData command: the handler up to the put.
TakeStoreData(op_id, now, put_ok) ==
    /\ command_rx # <<>>
    /\ Recv(command_rx).cmd.type = "StoreData"
    /\ LET w == Recv(command_rx).cmd.w
       IN StoreData(w.db_name, w.key, w.value, w.pk, w.signature, op_id, now, put_ok)
    /\ command_rx' = Recv(command_rx).rest
    /\ callerView' = [callerView EXCEPT !.handled = Recv(command_rx).cmd.n,
                                        !.value = Recv(command_rx).cmd.w.value,
                                        !.stands = put_ok]
    /\ UNCHANGED outsideCaller

\* NodeCommand::GetData: storage.get(..).ok().flatten() is sent back.
TakeGetData ==
    /\ dpc = "idle"
    /\ command_rx # <<>>
    /\ Recv(command_rx).cmd.type = "GetData"
    /\ command_rx' = Recv(command_rx).rest
    /\ LET cmd == Recv(command_rx).cmd
           at == <<cmd.db_name, <<cmd.key>>>>
       IN callerView' = [callerView EXCEPT !.got = [after |-> cmd.after,
                                                    data |-> IF at \in DOMAIN storage
                                                             THEN Some(storage[at]) ELSE None,
                                                    seq |-> 1 - callerView.got.seq]]
    /\ UNCHANGED <<nodeVars, outsideCaller>>

\* The sync listener applies a remote operation: a put it makes is another
\* write, after which the caller's own write no longer stands.
RemoteApply(put_ok) ==
    /\ ApplyOp(put_ok)
    /\ callerView' = [callerView EXCEPT !.stands = @ /\ puts' = puts]
    /\ UNCHANGED <<command_rx, outsideCaller>>

NextCaller ==
    \/ \E w \in LocalWrites : store_data(w)
    \/ \E after \in 1..MaxStores : get_data(after)
    \/ \E id \in LocalOpIds, put_ok \in BOOLEAN : TakeStoreData(id, 1, put_ok)
    \/ StoreDataAdd /\ UNCHANGED <<syncVars, netVars>>
    \/ StoreDataBroadcast /\ UNCHANGED <<syncVars, netVars>>
    \/ TakeGetData
    \/ RecvOperation(OpNew) /\ UNCHANGED <<syncVars, netVars>>
    \/ \E put_ok \in BOOLEAN : RemoteApply(put_ok)

SpecCaller == InitNode /\ [][NextCaller]_vars

\* C39: a get_data enqueued after a store_data is answered after that store
\* was handled; if that store is the one handled last, its put succeeded and
\* nothing else wrote the key since, the answer is the value stored.
C39_ReadYourWrites ==
    [][callerView'.got.seq # callerView.got.seq =>
          /\ callerView.handled >= callerView'.got.after
          /\ (callerView.handled = callerView'.got.after /\ callerView.stands) =>
                 callerView'.got.data = Some(callerView.value)]_vars

\* The get_data behind the second store returned the value stored; a remote
\* operation was applied before.
C39_Witness ==
    /\ callerView.got.after = 2
    /\ callerView.handled = 2
    /\ callerView.stands
    /\ callerView.got.data = Some(callerView.value)
    /\ applied # {}

(***************************************************************************)
(* network_resilience.rs: the delay written after a failed connect         *)
(***************************************************************************)
\* C40 as claimed: the delay the reconnect loop computes for failure count
\* f >= 1 is between 1 and 300 seconds and is not smaller than the delay for
\* f - 1; it never drops back to 0.
C40_AsClaimed ==
    (attempt # NoAttempt /\ ~attempt.ok) =>
        LET failures == peer_backoff[attempt.peer][1]
            delay == peer_backoff[attempt.peer][2] - attempt.now
        IN /\ delay \in 1..max_secs
           /\ failures > 1 => delay >= backoff_secs(failures - 1)

====
